---------------------------- MODULE Spec2Model ----------------------------
(***************************************************************************)
(* A model of chr33s/git: the client repository facade (GitRepository and  *)
(* Client over one storage) and the smart-HTTP server (Server, a Durable   *)
(* Object handling receive-pack requests).                                 *)
(*                                                                         *)
(* Object IDs.  SHA-1 is modelled as an injective function of the object's *)
(* kind and bytes: the OID of an object IS the object, a tuple             *)
(*   <<"blob", lines>>, <<"tree", entries>>, <<"commit", tree, parents, m>>*)
(* so that two objects share an OID exactly when they have the same kind   *)
(* and content.  ZeroOid is the 40-zeros OID, NoOid the empty string.      *)
(*                                                                         *)
(* Names.  A ref name or a path is the sequence of its "/"-separated       *)
(* components: refs/heads/main is <<"refs", "heads", "main">>.             *)
(***************************************************************************)
EXTENDS Integers, Sequences, FiniteSets, TLC

VARIABLES
    \* ---- the client repository (GitRepository over one GitStorage) ----
    objects,    \* .git/objects: the set of stored objects
    refs,       \* .git/refs/**: ref name -> OID
    HEAD,       \* .git/HEAD: <<"ref", name>> or <<"oid", oid>>
    index,      \* GitIndex.#entries: sequence of [path, oid, mode]
    sent,       \* the packs the client has sent to the remote, in order
    last,       \* the last client operation, its inputs and its outcome
    nops,       \* number of client operations performed
    files,      \* the other files of the same GitStorage: path -> content
    resolver,   \* ConflictResolver.#conflicts: path -> conflict entry
    \* ---- the server (one Durable Object, one repository) ----
    sObjects,   \* the server repository's object store
    sRefs,      \* the server repository's refs
    req,        \* per request: the state of its handler
    sLog        \* the requests that mutated the storage, in order of mutation

clientVars == <<objects, refs, HEAD, index, sent, last, nops, files>>
serverVars == <<sObjects, sRefs, req, sLog>>
vars == <<objects, refs, HEAD, index, sent, last, nops, files, resolver,
          sObjects, sRefs, req, sLog>>

-----------------------------------------------------------------------------
(* Bounds of the model *)

MaxOps == 4          \* client operations in one behaviour
MaxCommands == 2     \* ref-update commands in one receive-pack request

-----------------------------------------------------------------------------
(* Generic helpers *)

Put(f, k, v) == [x \in (DOMAIN f) \cup {k} |-> IF x = k THEN v ELSE f[x]]

Remove(f, k) == [x \in (DOMAIN f) \ {k} |-> f[x]]

SeqRange(s) == {s[i] : i \in 1..Len(s)}

SelectSeqIdx(s, keep(_)) ==
    LET F[i \in 0..Len(s)] ==
            IF i = 0 THEN <<>>
            ELSE IF keep(s[i]) THEN Append(F[i - 1], s[i]) ELSE F[i - 1]
    IN F[Len(s)]

-----------------------------------------------------------------------------
(* Objects and OIDs *)

ZeroOid == <<"zero">>
NoOid == <<>>

Blob(lines) == <<"blob", lines>>
Tree(entries) == <<"tree", entries>>
Commit(tree, parents, message) == <<"commit", tree, parents, message>>

Kind(o) == IF Len(o) = 0 THEN "none" ELSE o[1]

\* A tree entry is <<mode, name, oid>>
TreeEntries(t) == t[2]

\* GitObjectStore.readObject: the object when stored, otherwise it throws
HasObject(objs, oid) == oid \in objs

\* GitObjectStore.writeObject: content-addressed, so writing is set union
WriteObject(objs, o) == objs \cup {o}

\* GitRepository.parseCommit(data).tree: the text after "tree " of the
\* first line starting with "tree ", or "" when there is none.  The bytes
\* of a tree or a blob hold no such line for the names and contents used.
ParseCommitTree(o) == IF Kind(o) = "commit" THEN o[2] ELSE NoOid

\* GitRepository.parseCommit(data).parent: the FIRST "parent " line only
ParseCommitParent(o) ==
    IF Kind(o) = "commit" /\ Len(o[3]) > 0 THEN o[3][1] ELSE NoOid

-----------------------------------------------------------------------------
(* Names and ordering (String.prototype.localeCompare: punctuation, then  *)
(* digits, then letters).  "1x" and "1y" are the hex names of two objects. *)

NameOrder == <<".git", "1x", "1y", "a", "b", "d", "objects">>
Names == SeqRange(NameOrder)
NameRank(n) == CHOOSE i \in 1..Len(NameOrder) : NameOrder[i] = n
NameLess(n, m) == NameRank(n) < NameRank(m)

RECURSIVE PathLess(_, _)
PathLess(p, q) ==
    IF Len(q) = 0 THEN FALSE
    ELSE IF Len(p) = 0 THEN TRUE
    ELSE IF p[1] = q[1] THEN PathLess(Tail(p), Tail(q))
    ELSE NameLess(p[1], q[1])

\* Array.prototype.sort with comparator less: a stable sort
StableSort(s, less(_, _)) ==
    LET F[n \in 0..Len(s)] ==
            IF n = 0 THEN <<>>
            ELSE LET rest == F[n - 1]
                     x == s[n]
                     \* stable: x goes after every element not greater than it
                     pos == CHOOSE i \in 0..Len(rest) :
                                /\ \A j \in 1..i : ~less(x, rest[j])
                                /\ \A j \in (i + 1)..Len(rest) : less(x, rest[j])
                 IN SubSeq(rest, 1, pos) \o <<x>>
                        \o SubSeq(rest, pos + 1, Len(rest))
    IN F[Len(s)]

\* Insertion-ordered Set: the first occurrence of each element is kept
Dedup(s) ==
    LET F[i \in 0..Len(s)] ==
            IF i = 0 THEN <<>>
            ELSE IF s[i] \in SeqRange(F[i - 1]) THEN F[i - 1]
                 ELSE Append(F[i - 1], s[i])
    IN F[Len(s)]

-----------------------------------------------------------------------------
(* GitRefStore *)

\* GitRefStore.#getRefPath: a name that does not start with "refs/" is
\* taken to be relative to refs/
GetRefPath(name) ==
    IF Len(name) >= 2 /\ name[1] = "refs" THEN name ELSE <<"refs">> \o name

\* GitRefStore.readRef: the OID, or null (NoOid) when the file is missing
ReadRef(rs, name) ==
    IF GetRefPath(name) \in DOMAIN rs THEN rs[GetRefPath(name)] ELSE NoOid

\* GitRefStore.writeRef
WriteRef(rs, name, oid) == Put(rs, GetRefPath(name), oid)

\* GitRefStore.deleteRef: a missing ref is ignored
DeleteRef(rs, name) == Remove(rs, GetRefPath(name))

-----------------------------------------------------------------------------
(* GitIndex *)

Entry(path, oid, mode) == [path |-> path, oid |-> oid, mode |-> mode]

EntryPathLess(e, f) == PathLess(e.path, f.path)

\* addEntry without the sort: the new entry stays at the end
AddEntryUnsorted(idx, entry) ==
    LET kept == SelectSeqIdx(idx, LAMBDA e : e.path # entry.path)
    IN Append(kept, entry)

\* GitIndex.addEntry: drop the entry of the same path, push, sort by path
AddEntry(idx, entry) ==
    LET kept == SelectSeqIdx(idx, LAMBDA e : e.path # entry.path)
    IN StableSort(Append(kept, entry), EntryPathLess)

\* GitIndex.removeEntry
RemoveEntry(idx, path) == SelectSeqIdx(idx, LAMBDA e : e.path # path)

\* GitIndex.#walkTreeAndAddEntries: one entry per non-directory leaf, in
\* tree order; a tree that cannot be read contributes nothing (the error is
\* caught and logged)
RECURSIVE WalkTreeAndAddEntries(_, _, _)
WalkTreeAndAddEntries(objs, treeOid, prefix) ==
    IF ~HasObject(objs, treeOid) \/ Kind(treeOid) # "tree" THEN <<>>
    ELSE LET es == TreeEntries(treeOid)
             F[i \in 0..Len(es)] ==
                 IF i = 0 THEN <<>>
                 ELSE IF es[i][1] = "40000"
                      THEN F[i - 1] \o WalkTreeAndAddEntries(
                               objs, es[i][3], Append(prefix, es[i][2]))
                      ELSE Append(F[i - 1],
                               Entry(Append(prefix, es[i][2]), es[i][3], es[i][1]))
         IN F[Len(es)]

\* GitIndex.updateFromTree: the entries are replaced by the walk's result
UpdateFromTree(objs, treeOid) == WalkTreeAndAddEntries(objs, treeOid, <<>>)

-----------------------------------------------------------------------------
(* GitRepository: trees from the index *)

\* String.prototype.padStart(6, "0") on a mode
PadStart6(mode) == IF mode = "40000" THEN "040000" ELSE mode

TreeEntryNameLess(e, f) == NameLess(e[2], f[2])

\* GitRepository.createTreeFromIndex groups the entries by directory
\* (the path without its last component, "." for none); this is the group
\* of directory dir, as <<mode, name, oid>> in index order
GroupOfDir(idx, dir) ==
    LET F[i \in 0..Len(idx)] ==
            IF i = 0 THEN <<>>
            ELSE LET p == idx[i].path IN
                 IF SubSeq(p, 1, Len(p) - 1) = dir
                 THEN Append(F[i - 1], <<idx[i].mode, p[Len(p)], idx[i].oid>>)
                 ELSE F[i - 1]
    IN F[Len(idx)]

\* GitRepository.createTreeObject(tree, path): the tree object of the group
\* of path alone, its entries sorted by name.  It reads no other group.
CreateTreeObject(idx, dir) ==
    LET es == StableSort(GroupOfDir(idx, dir), TreeEntryNameLess)
    IN Tree([i \in 1..Len(es) |-> <<PadStart6(es[i][1]), es[i][2], es[i][3]>>])

\* GitRepository.createTreeFromIndex: createTreeObject(tree, ".")
CreateTreeFromIndex(idx) == CreateTreeObject(idx, <<>>)

\* The (path, oid, mode) of every leaf reached by walking a tree
RECURSIVE TreeLeaves(_, _, _)
TreeLeaves(objs, treeOid, prefix) ==
    IF ~HasObject(objs, treeOid) \/ Kind(treeOid) # "tree" THEN {}
    ELSE UNION {
            IF e[1] = "40000"
            THEN TreeLeaves(objs, e[3], Append(prefix, e[2]))
            ELSE {Entry(Append(prefix, e[2]), e[3], e[1])}
          : e \in SeqRange(TreeEntries(treeOid)) }

-----------------------------------------------------------------------------
(* GitMerge: the recursive three-way merge *)

NoEntry == <<>>

\* GitMerge.#walkTree / #getTreePaths: the leaf paths of a tree in tree
\* order; readObject throws when the tree is not stored
RECURSIVE WalkTree(_, _, _)
WalkTree(objs, treeOid, prefix) ==
    IF ~HasObject(objs, treeOid) \/ Kind(treeOid) # "tree"
    THEN [ok |-> FALSE, paths |-> <<>>]
    ELSE LET es == TreeEntries(treeOid)
             F[i \in 0..Len(es)] ==
                 IF i = 0 THEN [ok |-> TRUE, paths |-> <<>>]
                 ELSE IF ~F[i - 1].ok THEN F[i - 1]
                 ELSE IF es[i][1] = "40000"
                      THEN LET sub == WalkTree(objs, es[i][3],
                                               Append(prefix, es[i][2]))
                           IN [ok |-> sub.ok,
                               paths |-> F[i - 1].paths \o sub.paths]
                      ELSE [ok |-> TRUE,
                            paths |-> Append(F[i - 1].paths,
                                             Append(prefix, es[i][2]))]
         IN F[Len(es)]

\* GitMerge.#getTreeEntry: the entry at path, or null
RECURSIVE GetTreeEntry(_, _, _)
GetTreeEntry(objs, treeOid, path) ==
    IF ~HasObject(objs, treeOid) \/ Kind(treeOid) # "tree" \/ Len(path) = 0
    THEN NoEntry
    ELSE LET es == TreeEntries(treeOid)
             hits == {i \in 1..Len(es) : es[i][2] = path[1]}
         IN IF hits = {} THEN NoEntry
            ELSE LET e == es[CHOOSE i \in hits : \A j \in hits : i <= j]
                 IN IF Len(path) = 1 THEN e
                    ELSE GetTreeEntry(objs, e[3], Tail(path))

\* GitMerge.#isTextFile: no NUL byte; the line "NUL" stands for a line
\* holding a NUL byte
IsTextFile(blob) == "NUL" \notin SeqRange(blob[2])

LineAt(ls, i) == IF i <= Len(ls) THEN ls[i] ELSE ""

Max2(a, b) == IF a >= b THEN a ELSE b

\* GitMerge.#mergeTextContent, line by line over index-aligned triples;
\* a missing base is the empty text, whose split is one empty line
MergeTextContent(baseEntry, ourOid, theirOid) ==
    LET ourLines == ourOid[2]
        theirLines == theirOid[2]
        baseLines == IF baseEntry = NoEntry THEN <<"">> ELSE baseEntry[3][2]
        n == Max2(Len(ourLines), Max2(Len(theirLines), Len(baseLines)))
        conflictAt(i) ==
            /\ LineAt(ourLines, i) # LineAt(theirLines, i)
            /\ LineAt(ourLines, i) # LineAt(baseLines, i)
            /\ LineAt(theirLines, i) # LineAt(baseLines, i)
        merged == [i \in 1..n |->
                      IF LineAt(ourLines, i) = LineAt(theirLines, i)
                      THEN LineAt(ourLines, i)
                      ELSE IF LineAt(ourLines, i) = LineAt(baseLines, i)
                      THEN LineAt(theirLines, i)
                      ELSE LineAt(ourLines, i)]
    IN [success |-> ~\E i \in 1..n : conflictAt(i), content |-> merged]

\* GitMerge.#mergeEntry: what the path contributes.  kind is "none",
\* "entry" or "conflict"; written is the blob it wrote, if any
MergeEntry(baseEntry, ourEntry, theirEntry) ==
    LET none == [kind |-> "none", entry |-> NoEntry, written |-> {}]
        keep(e) == [kind |-> "entry", entry |-> e, written |-> {}]
        conflict == [kind |-> "conflict", entry |-> NoEntry, written |-> {}]
    IN IF ourEntry = NoEntry /\ theirEntry = NoEntry THEN none
       ELSE IF theirEntry = NoEntry
       THEN IF baseEntry = NoEntry \/ ourEntry[3] # baseEntry[3]
            THEN keep(ourEntry) ELSE none
       ELSE IF ourEntry = NoEntry
       THEN IF baseEntry = NoEntry \/ theirEntry[3] # baseEntry[3]
            THEN keep(theirEntry) ELSE none
       ELSE IF ourEntry[3] = theirEntry[3] THEN keep(ourEntry)
       ELSE IF IsTextFile(ourEntry[3])
       THEN LET m == MergeTextContent(baseEntry, ourEntry[3], theirEntry[3])
            IN IF m.success
               THEN [kind |-> "entry",
                     entry |-> <<ourEntry[1], ourEntry[2], Blob(m.content)>>,
                     written |-> {Blob(m.content)}]
               ELSE conflict
       ELSE conflict

\* GitMerge.#createTree: entries sorted by name, serialized and written
CreateTree(entries) ==
    LET es == StableSort(entries, TreeEntryNameLess)
    IN Tree([i \in 1..Len(es) |-> <<PadStart6(es[i][1]), es[i][2], es[i][3]>>])

\* GitMerge.#recursiveMerge over three tree OIDs.  thrown: a tree could not
\* be read; otherwise success and the merged tree, and the objects written
RecursiveMerge(objs, baseTree, ourTree, theirTree) ==
    LET bp == WalkTree(objs, baseTree, <<>>)
        op == WalkTree(objs, ourTree, <<>>)
        tp == WalkTree(objs, theirTree, <<>>)
        allPaths == Dedup(bp.paths \o op.paths \o tp.paths)
        res == [i \in 1..Len(allPaths) |->
                   MergeEntry(GetTreeEntry(objs, baseTree, allPaths[i]),
                              GetTreeEntry(objs, ourTree, allPaths[i]),
                              GetTreeEntry(objs, theirTree, allPaths[i]))]
        conflicts == {i \in 1..Len(allPaths) : res[i].kind = "conflict"}
        mergedEntries ==
            LET F[i \in 0..Len(allPaths)] ==
                    IF i = 0 THEN <<>>
                    ELSE IF res[i].kind = "entry"
                         THEN Append(F[i - 1], res[i].entry) ELSE F[i - 1]
            IN F[Len(allPaths)]
        blobs == UNION {res[i].written : i \in 1..Len(allPaths)}
    IN IF ~(bp.ok /\ op.ok /\ tp.ok)
       THEN [thrown |-> TRUE, success |-> FALSE, mergedTree |-> NoOid,
             objs |-> objs]
       ELSE IF conflicts # {}
       THEN [thrown |-> FALSE, success |-> FALSE, mergedTree |-> NoOid,
             objs |-> objs \cup blobs]
       ELSE [thrown |-> FALSE, success |-> TRUE,
             mergedTree |-> CreateTree(mergedEntries),
             objs |-> objs \cup blobs \cup {CreateTree(mergedEntries)}]

\* GitMerge.#getTreeFromCommit: reads the object and takes the "tree" line
\* of its text; the caller's OID is read as a commit whatever its kind
GetTreeFromCommit(oid) == ParseCommitTree(oid)

\* GitMerge.threeWayMerge(baseCommit, ourCommit, theirCommit), strategy
\* "recursive": the three arguments are read as COMMITS
ThreeWayMerge(objs, baseCommit, ourCommit, theirCommit) ==
    IF ~({baseCommit, ourCommit, theirCommit} \subseteq objs)
    THEN [thrown |-> TRUE, success |-> FALSE, mergedTree |-> NoOid,
          objs |-> objs]
    ELSE RecursiveMerge(objs, GetTreeFromCommit(baseCommit),
                        GetTreeFromCommit(ourCommit),
                        GetTreeFromCommit(theirCommit))

\* GitRepository.merge(baseTree, ourTree, theirTree) hands its three
\* arguments to threeWayMerge unchanged
RepositoryMerge(objs, baseTree, ourTree, theirTree) ==
    ThreeWayMerge(objs, baseTree, ourTree, theirTree)

-----------------------------------------------------------------------------
(* The client: inputs *)

Paths == {<<"a">>, <<"b">>, <<"d", "a">>}
Contents == {<<"x">>, <<"y">>}
Messages == {"m1", "m2"}
BranchNames == {"main", "dev"}
Main == <<"refs", "heads", "main">>

BranchRef(b) == <<"refs", "heads", b>>
TrackingRef(b) == <<"refs", "remotes", "origin", b>>

\* What a caller passes as `ref`: a name, or the hex of a stored commit
RefNameInputs == {<<"dev">>, <<"refs", "heads", "main">>,
                  <<"refs", "heads", "dev">>}
RefArgs(objs) == {<<"name", n>> : n \in RefNameInputs}
                     \cup {<<"oid", o>> : o \in {c \in objs : Kind(c) = "commit"}}

\* The text of a ref argument as a name; the hex of an OID is one component
RefText(arg) == IF arg[1] = "name" THEN arg[2] ELSE <<"<oid>">>

\* An OID string that names no object (a ref name used as an OID)
BadOid == <<"bad">>

\* `let oid = ref; const refOid = getRef(ref); if (refOid) oid = refOid`
ResolveRef(rs, arg) ==
    IF arg[1] = "name"
    THEN IF ReadRef(rs, arg[2]) # NoOid THEN ReadRef(rs, arg[2]) ELSE BadOid
    ELSE arg[2]

\* GitRepository.getCurrentHead: the target when HEAD is symbolic, or null
GetCurrentHead(head) == IF head[1] = "ref" THEN head[2] ELSE <<>>

\* GitRepository.getCurrentCommitOid
GetCurrentCommitOid(head, rs) ==
    IF GetCurrentHead(head) # <<>> THEN ReadRef(rs, GetCurrentHead(head))
    ELSE NoOid

\* GitRepository.checkoutCommit: throws for a missing object or a
\* non-commit; otherwise the index is rebuilt from the commit's tree
CheckoutCommit(objs, commitOid) ==
    IF ~HasObject(objs, commitOid) \/ Kind(commitOid) # "commit"
    THEN [thrown |-> TRUE, index |-> <<>>]
    ELSE [thrown |-> FALSE,
          index |-> UpdateFromTree(objs, ParseCommitTree(commitOid))]

\* The record of an operation: its name, input, outcome, and the state it
\* started from
Last(op, arg, err, ret) ==
    [op |-> op, arg |-> arg, ok |-> (err = ""), err |-> err, ret |-> ret,
     refs0 |-> refs, HEAD0 |-> HEAD, index0 |-> index,
     objects0 |-> objects, sent0 |-> sent]

\* One more client operation; the server is not involved
Tick ==
    /\ nops < MaxOps
    /\ nops' = nops + 1
    /\ UNCHANGED <<sObjects, sRefs, req, sLog, resolver>>

\* The operation throws before it has written anything
Throw(op, arg, err) ==
    /\ last' = Last(op, arg, err, NoOid)
    /\ UNCHANGED <<objects, refs, HEAD, index, sent, files>>

-----------------------------------------------------------------------------
(* The client: operations *)

\* GitRepository.init (Client.init): HEAD is (re)written to the initial
\* branch; the index is loaded from its file, which every mutation saved
ClientInit ==
    /\ Tick
    /\ HEAD' = <<"ref", Main>>
    /\ last' = Last("init", <<>>, "", NoOid)
    /\ UNCHANGED <<objects, refs, index, sent, files>>

\* GitRepository.add(path, content)
Add(path, content) ==
    /\ Tick
    /\ objects' = WriteObject(objects, Blob(content))
    /\ index' = AddEntry(index, Entry(path, Blob(content), "100644"))
    /\ last' = Last("add", path, "", Blob(content))
    /\ UNCHANGED <<refs, HEAD, sent, files>>

\* A commit that forgets the parent: every commit is a root commit
CommitOpRootOnly(message) ==
    LET headRef == GetCurrentHead(HEAD)
        treeOid == CreateTreeFromIndex(index)
        commitOid == Commit(treeOid, <<>>, message)
    IN /\ Tick
       /\ objects' = WriteObject(WriteObject(objects, treeOid), commitOid)
       /\ refs' = IF headRef # <<>> THEN WriteRef(refs, headRef, commitOid)
                  ELSE refs
       /\ last' = Last("commit", message, "", commitOid)
       /\ UNCHANGED <<HEAD, index, sent, files>>

\* GitRepository.commit(message, author)
CommitOp(message) ==
    LET headRef == GetCurrentHead(HEAD)
        parentOid == IF headRef # <<>> THEN ReadRef(refs, headRef) ELSE NoOid
        treeOid == CreateTreeFromIndex(index)
        commitOid == Commit(treeOid,
                            IF parentOid # NoOid THEN <<parentOid>> ELSE <<>>,
                            message)
    IN /\ Tick
       /\ objects' = WriteObject(WriteObject(objects, treeOid), commitOid)
       /\ refs' = IF headRef # <<>> THEN WriteRef(refs, headRef, commitOid)
                  ELSE refs
       /\ last' = Last("commit", message, "", commitOid)
       /\ UNCHANGED <<HEAD, index, sent, files>>

\* Client.branch(ref): create refs/heads/<ref> at the HEAD commit
Branch(b) ==
    LET headOid == GetCurrentCommitOid(HEAD, refs)
    IN /\ Tick
       /\ IF headOid = NoOid THEN Throw("branch", b, "No HEAD commit")
          ELSE /\ refs' = WriteRef(refs, BranchRef(b), headOid)
               /\ last' = Last("branch", b, "", NoOid)
               /\ UNCHANGED <<objects, HEAD, index, sent, files>>

\* Client.checkout(ref)
Checkout(arg) ==
    LET co == CheckoutCommit(objects, ResolveRef(refs, arg))
    IN /\ Tick
       /\ IF co.thrown THEN Throw("checkout", arg, "Not found")
          ELSE /\ index' = co.index
               /\ HEAD' = <<"ref", <<"refs", "heads">> \o RefText(arg)>>
               /\ last' = Last("checkout", arg, "", NoOid)
               /\ UNCHANGED <<objects, refs, sent, files>>

\* Client.switch(name)
Switch(b) ==
    LET branchOid == ReadRef(refs, BranchRef(b))
        co == CheckoutCommit(objects, branchOid)
    IN /\ Tick
       /\ IF branchOid = NoOid \/ co.thrown THEN Throw("switch", b, "Branch not found")
          ELSE /\ index' = co.index
               /\ HEAD' = <<"ref", BranchRef(b)>>
               /\ last' = Last("switch", b, "", NoOid)
               /\ UNCHANGED <<objects, refs, sent, files>>

\* Client.reset(hard, ref)
Reset(hard, arg) ==
    LET commitOid == ResolveRef(refs, arg)
        co == CheckoutCommit(objects, commitOid)
        headRef == GetCurrentHead(HEAD)
    IN /\ Tick
       /\ IF co.thrown THEN Throw("reset", arg, "Not found")
          ELSE /\ index' = co.index
               /\ refs' = IF hard /\ headRef # <<>>
                          THEN WriteRef(refs, headRef, commitOid) ELSE refs
               /\ last' = Last("reset", arg, "", NoOid)
               /\ UNCHANGED <<objects, HEAD, sent, files>>

\* The first loop of Client.#findCommonAncestor: the first-parent history
\* of oid1; ok is FALSE when readObject throws on the way
RECURSIVE FirstParentHistory(_, _)
FirstParentHistory(objs, oid) ==
    IF oid = NoOid THEN [ok |-> TRUE, set |-> {}]
    ELSE IF ~HasObject(objs, oid) THEN [ok |-> FALSE, set |-> {}]
    ELSE IF Kind(oid) # "commit" THEN [ok |-> TRUE, set |-> {oid}]
    ELSE LET r == FirstParentHistory(objs, ParseCommitParent(oid))
         IN [ok |-> r.ok, set |-> {oid} \cup r.set]

\* The second loop: the first commit of oid2's first-parent history that
\* is in history1, or null
RECURSIVE WalkToHistory(_, _, _)
WalkToHistory(objs, history1, oid) ==
    IF oid = NoOid THEN [thrown |-> FALSE, oid |-> NoOid]
    ELSE IF oid \in history1 THEN [thrown |-> FALSE, oid |-> oid]
    ELSE IF ~HasObject(objs, oid) THEN [thrown |-> TRUE, oid |-> NoOid]
    ELSE IF Kind(oid) # "commit" THEN [thrown |-> FALSE, oid |-> NoOid]
    ELSE WalkToHistory(objs, history1, ParseCommitParent(oid))

\* Client.#findCommonAncestor
FindCommonAncestor(objs, oid1, oid2) ==
    LET h == FirstParentHistory(objs, oid1)
    IN IF ~h.ok THEN [thrown |-> TRUE, oid |-> NoOid]
       ELSE WalkToHistory(objs, h.set, oid2)

MergeMessage == "merge"

\* Client.merge(ref)
Merge(arg) ==
    LET headOid == GetCurrentCommitOid(HEAD, refs)
        mergeOid == ResolveRef(refs, arg)
        anc == FindCommonAncestor(objects, headOid, mergeOid)
        \* the TREES of the three commits are passed on
        result == RepositoryMerge(objects, ParseCommitTree(anc.oid),
                                  ParseCommitTree(headOid),
                                  ParseCommitTree(mergeOid))
        mergeCommitOid == Commit(result.mergedTree, <<headOid, mergeOid>>,
                                 MergeMessage)
        headRef == GetCurrentHead(HEAD)
    IN /\ Tick
       /\ IF headOid = NoOid \/ anc.thrown \/ anc.oid = NoOid
             \/ ~HasObject(objects, mergeOid) \/ result.thrown
          THEN Throw("merge", arg, "Not found")
          ELSE IF ~result.success
          THEN /\ objects' = result.objs
               /\ last' = Last("merge", arg, "Merge conflict", NoOid)
               /\ UNCHANGED <<refs, HEAD, index, sent, files>>
          ELSE /\ objects' = WriteObject(result.objs, mergeCommitOid)
               /\ refs' = IF headRef # <<>>
                          THEN WriteRef(refs, headRef, mergeCommitOid) ELSE refs
               /\ last' = Last("merge", arg, "", mergeCommitOid)
               /\ UNCHANGED <<HEAD, index, sent, files>>

\* What the remote advertises for a branch (GitProtocol.discoverRefs):
\* nothing (NoOid), or an OID
Advertised(objs) == {NoOid, BadOid} \cup {c \in objs : Kind(c) = "commit"}

\* The objects Client.push collects from a commit: the commits of its
\* first-parent history and the closure of their trees
RECURSIVE CollectTreeObjects(_, _)
CollectTreeObjects(objs, treeOid) ==
    {treeOid} \cup
    IF ~HasObject(objs, treeOid) \/ Kind(treeOid) # "tree" THEN {}
    ELSE UNION { IF e[1] = "40000" THEN CollectTreeObjects(objs, e[3])
                 ELSE {e[3]} : e \in SeqRange(TreeEntries(treeOid)) }

ObjectsToSend(objs, localOid) ==
    LET cs == FirstParentHistory(objs, localOid).set
    IN cs \cup UNION {CollectTreeObjects(objs, ParseCommitTree(c)) : c \in cs}

\* The check with the force flag inverted
NonFastForwardInverted(adv, old, force) == adv # NoOid /\ adv # old /\ force

\* The check of GitRepository.sendPack: the remote advertises the ref with
\* an OID other than `old`, and the push is not forced
NonFastForward(adv, old, force) == adv # NoOid /\ adv # old /\ ~force

\* Client.push(remote, branch, force).  adv: what the remote advertises for
\* refs/heads/<branch>; netOk: whether GitProtocol.pushPack got an ok
\* response (it throws otherwise)
Push(b, force, adv, netOk) ==
    LET localOid == ReadRef(refs, BranchRef(b))
        packData == ObjectsToSend(objects, localOid)
        oldOid == ReadRef(refs, TrackingRef(b))
        oldValue == IF oldOid # NoOid THEN oldOid ELSE ZeroOid
        update == [ref |-> BranchRef(b), old |-> oldValue, new |-> localOid]
        arg == [branch |-> b, force |-> force, adv |-> adv, netOk |-> netOk]
    IN /\ Tick
       /\ IF localOid = NoOid \/ ~FirstParentHistory(objects, localOid).ok
          THEN Throw("push", arg, "Branch not found")
          ELSE IF NonFastForward(adv, oldValue, force)
          THEN Throw("push", arg, "Non-fast-forward")
          ELSE IF ~netOk
          THEN \* the request was sent and the response was not ok
               /\ sent' = Append(sent, [update |-> update, pack |-> packData])
               /\ last' = Last("push", arg, "Failed to push", NoOid)
               /\ UNCHANGED <<objects, refs, HEAD, index, files>>
          ELSE /\ sent' = Append(sent, [update |-> update, pack |-> packData])
               /\ refs' = WriteRef(refs, TrackingRef(b), localOid)
               /\ last' = Last("push", arg, "", localOid)
               /\ UNCHANGED <<objects, HEAD, index, files>>

-----------------------------------------------------------------------------
(* The client: specification *)

EmptyMap == [x \in {} |-> NoOid]

ClientInitState ==
    /\ objects = {}
    /\ refs = EmptyMap
    /\ HEAD = <<"ref", Main>>
    /\ index = <<>>
    /\ sent = <<>>
    /\ files = EmptyMap
    /\ resolver = EmptyMap
    /\ nops = 0
    /\ last = [op |-> "init", arg |-> <<>>, ok |-> TRUE, err |-> "",
               ret |-> NoOid,
               refs0 |-> EmptyMap, HEAD0 |-> <<"ref", Main>>,
               index0 |-> <<>>, objects0 |-> {}, sent0 |-> <<>>]

ServerIdle ==
    /\ sObjects = {}
    /\ sRefs = EmptyMap
    /\ req = <<>>
    /\ sLog = <<>>

Init == ClientInitState /\ ServerIdle

Next ==
    \/ ClientInit
    \/ \E p \in Paths, c \in Contents : Add(p, c)
    \/ \E m \in Messages : CommitOp(m)
    \/ \E b \in BranchNames : Branch(b)
    \/ \E a \in RefArgs(objects) : Checkout(a)
    \/ \E b \in BranchNames : Switch(b)
    \/ \E h \in BOOLEAN, a \in RefArgs(objects) : Reset(h, a)
    \/ \E a \in RefArgs(objects) : Merge(a)
    \/ \E b \in BranchNames, f \in BOOLEAN, adv \in Advertised(objects),
          ok \in BOOLEAN : Push(b, f, adv, ok)

Spec == Init /\ [][Next]_vars

-----------------------------------------------------------------------------
(* The server: receive-pack requests to one repository's Durable Object.   *)
(* A request's handler runs until its next `await` and then yields; the    *)
(* handlers of the requests in flight take their steps in any order.       *)

\* The requests: two handlers of one Durable Object, the least number that
\* can be in flight together; a request is numbered by its arrival
Requests == {1, 2}

\* The objects a push carries
EmptyTree == Tree(<<>>)
Commit1 == Commit(EmptyTree, <<>>, "m1")

\* The pack data after the commands: none; a well-formed pack; a pack
\* whose parse throws (bad signature, corrupt object or delta)
PackNone == [objs |-> <<>>, fault |-> FALSE, present |-> FALSE]
PackGood == [objs |-> <<EmptyTree, Commit1>>, fault |-> FALSE, present |-> TRUE]
PackCorrupt == [objs |-> <<EmptyTree, Commit1>>, fault |-> TRUE, present |-> TRUE]
Packs == {PackNone, PackGood, PackCorrupt}

\* The commands `old new ref` that match the handler's pattern.  `old` is
\* parsed and never read again.
Commands == [old : {ZeroOid}, new : {ZeroOid, Commit1}, ref : {Main}]
CommandLists == UNION {[1..n -> Commands] : n \in 1..MaxCommands}

\* Everything reachable from an object: a commit's tree and parents, a
\* tree's entries
RECURSIVE Closure(_)
Closure(oid) ==
    {oid} \cup
    IF Len(oid) = 0 THEN {}
    ELSE IF oid[1] = "commit"
    THEN Closure(oid[2]) \cup UNION {Closure(oid[3][i]) : i \in DOMAIN oid[3]}
    ELSE IF oid[1] = "tree"
    THEN UNION {Closure(oid[2][i][3]) : i \in DOMAIN oid[2]}
    ELSE {}

\* sLog after request r has mutated the storage: runs of one request are
\* kept as a single entry
Logged(r) ==
    IF sLog # <<>> /\ sLog[Len(sLog)] = r THEN sLog ELSE Append(sLog, r)

InFlight(r) == r \in DOMAIN req /\ req[r].pc # "done"

\* The handler of request r ends with a response
Ended(r, status) ==
    [req EXCEPT ![r].pc = "done", ![r].status = status,
                ![r].refsAtEnd = sRefs']

\* worker.fetch and Server.fetch up to the handler's first await: the
\* request arrives; a signal that is already aborted ends it with 499.
\* (Server.fetch also runs GitRepository.init, which rewrites .git/HEAD
\* with the same text on every request.)
Arrive(commands, pack, aborted) ==
    /\ Len(req) + 1 \in Requests
    /\ req' = Append(req,
                [pc |-> IF aborted THEN "done" ELSE "read",
                 status |-> IF aborted THEN 499 ELSE 0,
                 commands |-> commands, pack |-> pack,
                 next |-> 1, toStore |-> <<>>,
                 aborted |-> aborted,
                 \* history: for the properties only
                 abortedEarly |-> aborted, parse |-> "none",
                 wrote |-> 0, refsAtEnd |-> sRefs])
    /\ UNCHANGED <<sObjects, sRefs, sLog>>
    /\ UNCHANGED <<clientVars, resolver>>

\* The client goes away: the request's AbortSignal fires
Abort(r) ==
    /\ InFlight(r)
    /\ ~req[r].aborted
    /\ req' = [req EXCEPT ![r].aborted = TRUE,
                          ![r].abortedEarly = (req[r].wrote = 0)]
    /\ UNCHANGED <<sObjects, sRefs, sLog>>
    /\ UNCHANGED <<clientVars, resolver>>

\* The call of deleteRef or writeRef for the request's next command: made
\* by the step that resumes the handler, which then yields on its await
ApplyUpdate(r) ==
    LET update == req[r].commands[req[r].next]
    IN /\ sRefs' = IF update.new = ZeroOid
                   THEN DeleteRef(sRefs, update.ref)
                   ELSE WriteRef(sRefs, update.ref, update.new)
       /\ sLog' = Logged(r)

\* The request after ApplyUpdate
Updated(r) ==
    [req EXCEPT ![r].pc = "refs", ![r].next = req[r].next + 1,
                ![r].wrote = req[r].wrote + 1]

\* #receivePack from the first reader.read() to its next await: the body
\* is read chunk by chunk, the commands are parsed, and the signal is
\* polled after every chunk, before every pkt-line and before the parse.
\* With pack data the handler yields in parsePack; without, it goes on to
\* the first ref update.
ReadBody(r) ==
    /\ InFlight(r)
    /\ req[r].pc = "read"
    /\ IF req[r].aborted
       THEN /\ sRefs' = sRefs
            /\ req' = Ended(r, 499)
            /\ UNCHANGED sLog
       ELSE IF req[r].pack.present
       THEN /\ req' = [req EXCEPT ![r].pc = "parse"]
            /\ UNCHANGED <<sRefs, sLog>>
       ELSE /\ ApplyUpdate(r)
            /\ req' = Updated(r)
    /\ UNCHANGED sObjects
    /\ UNCHANGED <<clientVars, resolver>>

\* A parse that swallows its error: the handler goes on to the ref updates
ParsePackLenient(r) ==
    /\ InFlight(r)
    /\ req[r].pc = "parse"
    /\ IF req[r].pack.fault
       THEN /\ ApplyUpdate(r)
            /\ req' = [Updated(r) EXCEPT ![r].parse = "failed"]
       ELSE /\ req' = [req EXCEPT ![r].pc = "store",
                                  ![r].toStore = req[r].pack.objs]
            /\ UNCHANGED <<sRefs, sLog>>
    /\ UNCHANGED sObjects
    /\ UNCHANGED <<clientVars, resolver>>

\* GitPackParser.parsePack, first pass and delta resolution: a throw is
\* caught by #receivePack and answered with 400
ParsePack(r) ==
    /\ InFlight(r)
    /\ req[r].pc = "parse"
    /\ IF req[r].pack.fault
       THEN /\ sRefs' = sRefs
            /\ req' = [Ended(r, 400) EXCEPT ![r].parse = "failed"]
            /\ UNCHANGED sLog
       ELSE /\ req' = [req EXCEPT ![r].pc = "store",
                                  ![r].toStore = req[r].pack.objs]
            /\ UNCHANGED <<sRefs, sLog>>
    /\ UNCHANGED sObjects
    /\ UNCHANGED <<clientVars, resolver>>

\* GitPackParser.#storeObjects: one writeObject per step.  After the last
\* one the checksum is computed, parsePack returns and #receivePack goes
\* on to the first ref update.
StoreObject(r) ==
    /\ InFlight(r)
    /\ req[r].pc = "store"
    /\ IF req[r].toStore = <<>>
       THEN /\ ApplyUpdate(r)
            /\ req' = [Updated(r) EXCEPT ![r].parse = "done"]
            /\ UNCHANGED sObjects
       ELSE /\ sObjects' = WriteObject(sObjects, Head(req[r].toStore))
            /\ sLog' = Logged(r)
            /\ req' = [req EXCEPT ![r].toStore = Tail(req[r].toStore)]
            /\ UNCHANGED sRefs
    /\ UNCHANGED <<clientVars, resolver>>

\* The loop over refUpdates after the await of a deleteRef or writeRef:
\* the next update, or after the last one the 200 answer `unpack ok`
UpdateRef(r) ==
    /\ InFlight(r)
    /\ req[r].pc = "refs"
    /\ IF req[r].next > Len(req[r].commands)
       THEN /\ sRefs' = sRefs
            /\ req' = Ended(r, 200)
            /\ UNCHANGED sLog
       ELSE /\ ApplyUpdate(r)
            /\ req' = Updated(r)
    /\ UNCHANGED sObjects
    /\ UNCHANGED <<clientVars, resolver>>

NextServer ==
    \/ \E c \in CommandLists, p \in Packs, a \in BOOLEAN : Arrive(c, p, a)
    \/ \E r \in Requests : Abort(r)
    \/ \E r \in Requests : ReadBody(r)
    \/ \E r \in Requests : ParsePack(r)
    \/ \E r \in Requests : StoreObject(r)
    \/ \E r \in Requests : UpdateRef(r)

SpecServer == Init /\ [][NextServer]_vars

-----------------------------------------------------------------------------
(* GitIndex alone: addEntry and removeEntry on one index *)

Modes == {"100644", "100755"}
IndexEntries == {Entry(p, Blob(c), m) : p \in Paths, c \in Contents, m \in Modes}

\* GitIndex.addEntry(entry), with its save
IndexAddEntry(entry) ==
    /\ index' = AddEntry(index, entry)
    /\ last' = Last("addEntry", entry, "", NoOid)
    /\ UNCHANGED <<objects, refs, HEAD, sent, files, nops>>
    /\ UNCHANGED <<serverVars, resolver>>

\* GitIndex.removeEntry(path), with its save
IndexRemoveEntry(path) ==
    /\ index' = RemoveEntry(index, path)
    /\ last' = Last("removeEntry", path, "", NoOid)
    /\ UNCHANGED <<objects, refs, HEAD, sent, files, nops>>
    /\ UNCHANGED <<serverVars, resolver>>

NextIndex ==
    \/ \E e \in IndexEntries : IndexAddEntry(e)
    \/ \E p \in Paths : IndexRemoveEntry(p)

SpecIndex == Init /\ [][NextIndex]_vars

-----------------------------------------------------------------------------
(* GitIndex with updateFromTree: the trees are objects the store got from  *)
(* a pack (clone, fetch), with their entries in the order of their bytes   *)

FileEntry(name) == <<"100644", name, Blob(<<"x">>)>>

\* Tree objects of one and of two files, the two in either order
PackedTrees == {Tree(<<FileEntry("a")>>),
                Tree(<<FileEntry("a"), FileEntry("b")>>),
                Tree(<<FileEntry("b"), FileEntry("a")>>)}

\* GitObjectStore.writeObject("tree", data), as GitPackParser.#storeObjects
\* calls it for an object of a pack
StoreTree(t) ==
    /\ ~HasObject(objects, t)
    /\ objects' = WriteObject(objects, t)
    /\ last' = Last("writeObject", t, "", t)
    /\ UNCHANGED <<refs, HEAD, index, sent, files, nops>>
    /\ UNCHANGED <<serverVars, resolver>>

\* GitIndex.updateFromTree(treeOid, objectStore), with its save
IndexUpdateFromTree(t) ==
    /\ index' = UpdateFromTree(objects, t)
    /\ last' = Last("updateFromTree", t, "", NoOid)
    /\ UNCHANGED <<objects, refs, HEAD, sent, files, nops>>
    /\ UNCHANGED <<serverVars, resolver>>

NextIndexTree ==
    \/ \E e \in IndexEntries : IndexAddEntry(e)
    \/ \E p \in Paths : IndexRemoveEntry(p)
    \/ \E t \in PackedTrees : StoreTree(t)
    \/ \E t \in objects : IndexUpdateFromTree(t)

SpecIndexTree == Init /\ [][NextIndexTree]_vars

-----------------------------------------------------------------------------
(* The working tree.  GitRepository.readFile, writeFile and deleteFile    *)
(* hand the caller's path to the GitStorage that also holds .git/objects: *)
(* a path of the working tree can name the file of an object.             *)

WorkPaths == {<<"a">>, <<"b">>}

BlobOids == {Blob(c) : c \in Contents}

\* createSha1 as a file name: distinct objects, distinct names
Hex(o) == IF o = Blob(<<"x">>) THEN "1x" ELSE "1y"

\* GitObjectStore: `.git/objects/${dir}/${file}`
ObjectPath(o) == <<".git", "objects", Hex(o)>>

ObjectPaths == {ObjectPath(o) : o \in BlobOids}

ObjectAt(p) == CHOOSE o \in BlobOids : ObjectPath(o) = p

\* GitStorage.writeFile with bytes that are not a compressed object, or
\* GitStorage.deleteFile: the object of that path, if any, can no longer be
\* read (readObject throws "Object ... not found")
LoseObjectAt(objs, p) == IF p \in ObjectPaths THEN objs \ {ObjectAt(p)} ELSE objs

\* GitObjectStore.writeObject on this storage: the file of the object is
\* (re)written with the compressed object
StoreBlobFiles(f, o) == Remove(f, ObjectPath(o))

\* The user saves a file of the working tree
WriteWorkFile(p, c) ==
    /\ Tick
    /\ files' = Put(files, p, c)
    /\ last' = Last("writeFile", p, "", NoOid)
    /\ UNCHANGED <<objects, refs, HEAD, index, sent>>

\* Client.add(path)
ClientAdd(path) ==
    /\ Tick
    /\ IF path \notin DOMAIN files
       THEN Throw("add", path, "File not found")
       ELSE LET oid == Blob(files[path])
            IN /\ objects' = WriteObject(objects, oid)
               /\ files' = StoreBlobFiles(files, oid)
               /\ index' = AddEntry(index, Entry(path, oid, "100644"))
               /\ last' = Last("add", path, "", oid)
               /\ UNCHANGED <<refs, HEAD, sent>>

\* Client.mv(oldPath, newPath)
ClientMv(oldPath, newPath) ==
    /\ Tick
    /\ IF \A i \in 1..Len(index) : index[i].path # oldPath
       THEN Throw("mv", <<oldPath, newPath>>, "not found in index")
       ELSE LET oldEntry == index[CHOOSE i \in 1..Len(index) :
                                      index[i].path = oldPath]
                moved == AddEntry(RemoveEntry(index, oldPath),
                                  Entry(newPath, oldEntry.oid, oldEntry.mode))
            IN /\ index' = moved
               /\ UNCHANGED <<refs, HEAD, sent>>
               /\ IF oldPath \notin DOMAIN files
                  THEN /\ last' = Last("mv", <<oldPath, newPath>>,
                                       "File not found", NoOid)
                       /\ UNCHANGED <<objects, files>>
                  ELSE /\ files' = Remove(Put(files, newPath, files[oldPath]),
                                          oldPath)
                       /\ objects' = LoseObjectAt(objects, newPath)
                       /\ last' = Last("mv", <<oldPath, newPath>>, "", NoOid)

\* Client.rm(path, {cached})
ClientRm(path, cached) ==
    /\ Tick
    /\ IF \A i \in 1..Len(index) : index[i].path # path
       THEN Throw("rm", path, "pathspec did not match any files")
       ELSE /\ index' = RemoveEntry(index, path)
            /\ files' = IF cached THEN files ELSE Remove(files, path)
            /\ objects' = IF cached THEN objects
                          ELSE LoseObjectAt(objects, path)
            /\ last' = Last("rm", path, "", NoOid)
            /\ UNCHANGED <<refs, HEAD, sent>>

NextWorktree ==
    \/ \E p \in WorkPaths, c \in Contents : WriteWorkFile(p, c)
    \/ \E p \in WorkPaths : ClientAdd(p)
    \/ \E p \in WorkPaths, q \in WorkPaths \cup ObjectPaths : ClientMv(p, q)
    \/ \E p \in WorkPaths \cup ObjectPaths, cached \in BOOLEAN : ClientRm(p, cached)
    \/ \E m \in Messages : CommitOp(m)

SpecWorktree == Init /\ [][NextWorktree]_vars

-----------------------------------------------------------------------------
(* Packs.  A pack is its signature, the four bytes of its object count    *)
(* and its entries; an entry is a whole object or a delta that yields     *)
(* `obj` when applied to its base.  The entries hold non-empty data, for  *)
(* which #findCompressedEnd stops at the next entry's header.             *)

MaxObjects == 256

MaxIterations == 10

\* The i-th of the distinct blobs of a store
NthBlob(i) == Blob(<<i>>)

ChainLen(objs) == Cardinality({i \in 1..MaxObjects : NthBlob(i) \in objs})

\* GitPackWriter.#writeUint32BE
WriteUint32BE(v) ==
    <<(v \div 16777216) % 256, (v \div 65536) % 256, (v \div 256) % 256, v % 256>>

RECURSIVE BitOr(_, _)
BitOr(a, b) ==
    IF a = 0 THEN b
    ELSE IF b = 0 THEN a
    ELSE IF a = -1 \/ b = -1 THEN -1
    ELSE (IF a % 2 = 1 \/ b % 2 = 1 THEN 1 ELSE 0) + 2 * BitOr(a \div 2, b \div 2)

\* GitPackParser.#readUint32BE: in `buffer[offset] ?? 0 << 24` the shift
\* applies to the 0 alone, so the four bytes are or-ed unshifted
ReadUint32BE(b) == BitOr(BitOr(b[1], b[2]), BitOr(b[3], b[4]))

FullEntry(o) == [type |-> Kind(o), back |-> 0, baseOid |-> NoOid, obj |-> o]

\* An OFS_DELTA whose base is the entry `back` entries before it
OfsDelta(back, o) == [type |-> "ofs_delta", back |-> back, baseOid |-> NoOid, obj |-> o]

RefDelta(baseOid, o) == [type |-> "ref_delta", back |-> 0, baseOid |-> baseOid, obj |-> o]

IsDelta(e) == e.type \in {"ofs_delta", "ref_delta"}

\* GitPackWriter.createPack(oids)
CreatePack(oids) ==
    [signature |-> "PACK", count |-> WriteUint32BE(Len(oids)),
     entries |-> [i \in 1..Len(oids) |-> FullEntry(oids[i])]]

\* GitPackParser.#resolveDelta for the i-th parsed entry: the resolved
\* object, or the delta itself when its base is missing or still a delta
\* (#oidToOffset is filled by #storeObjects only, so a REF_DELTA finds its
\* base in the object store or not at all)
ResolveDelta(store, parsed, i) ==
    LET d == parsed[i]
        found == IF d.type = "ofs_delta"
                 THEN d.back # 0 /\ i - d.back \in 1..Len(parsed)
                 ELSE HasObject(store, d.baseOid)
        base == IF d.type = "ofs_delta" THEN parsed[i - d.back]
                ELSE FullEntry(d.baseOid)
    IN IF ~found \/ IsDelta(base) THEN d
       ELSE [type |-> base.type, back |-> 0, baseOid |-> NoOid, obj |-> d.obj]

\* One pass of #resolveDeltas over the entries, replacing as it goes
RECURSIVE ResolvePass(_, _, _)
ResolvePass(store, parsed, i) ==
    IF i > Len(parsed) THEN parsed
    ELSE ResolvePass(store,
                     IF IsDelta(parsed[i])
                     THEN [parsed EXCEPT ![i] = ResolveDelta(store, parsed, i)]
                     ELSE parsed,
                     i + 1)

UnresolvedCount(parsed) == Cardinality({i \in 1..Len(parsed) : IsDelta(parsed[i])})

\* GitPackParser.#resolveDeltas: passes until none is left or the
\* iterations are used up, then a console.warn and a normal return
RECURSIVE ResolveDeltas(_, _, _)
ResolveDeltas(store, parsed, iteration) ==
    LET next == ResolvePass(store, parsed, 1)
    IN IF UnresolvedCount(next) > 0 /\ iteration + 1 < MaxIterations
       THEN ResolveDeltas(store, next, iteration + 1)
       ELSE next

\* GitPackParser.parsePack with #storeObjects: the error thrown ("" for
\* none), the store afterwards and the deltas left unresolved
ParsePackInto(store, pack) ==
    LET objectCount == ReadUint32BE(pack.count)
        parsed == SubSeq(pack.entries, 1, objectCount)
        resolved == ResolveDeltas(store, parsed, 0)
    IN IF pack.signature # "PACK"
       THEN [err |-> "Invalid pack signature", store |-> store, unresolved |-> 0]
       ELSE IF objectCount > Len(pack.entries)
       THEN [err |-> "Unexpected end of buffer", store |-> store, unresolved |-> 0]
       ELSE [err |-> "",
             store |-> store \cup {resolved[i].obj : i \in
                                   {j \in 1..Len(resolved) : ~IsDelta(resolved[j])}},
             unresolved |-> UnresolvedCount(resolved)]

DeltaEntries ==
    {FullEntry(NthBlob(1)), OfsDelta(1, Blob(<<0>>)), OfsDelta(0, Blob(<<0>>)),
     RefDelta(NthBlob(1), Blob(<<0>>)), RefDelta(NthBlob(2), Blob(<<-1>>))}

ReceivedPacks ==
    {[signature |-> s, count |-> WriteUint32BE(Len(es)), entries |-> es] :
        s \in {"PACK", "JUNK"},
        es \in {<<e>> : e \in DeltaEntries} \cup
               {<<e, f>> : e \in DeltaEntries, f \in DeltaEntries}}

\* The i-th blob is written to the store
WriteBlob(i) ==
    /\ i <= MaxObjects
    /\ objects' = WriteObject(objects, NthBlob(i))
    /\ last' = Last("writeObject", i, "", NthBlob(i))
    /\ UNCHANGED <<refs, HEAD, index, sent, files, nops>>
    /\ UNCHANGED <<serverVars, resolver>>

\* A pack is parsed into the store (fetch, clone, receive-pack)
ParseReceivedPack(pack) ==
    LET r == ParsePackInto(objects, pack)
    IN /\ objects' = r.store
       /\ last' = Last("parsePack", pack, r.err, NoOid)
       /\ UNCHANGED <<refs, HEAD, index, sent, files, nops>>
       /\ UNCHANGED <<serverVars, resolver>>

\* createPack for the blobs of the store, parsed into an empty store; the
\* objects of that store are the result
PackRoundTrip ==
    LET oids == [i \in 1..ChainLen(objects) |-> NthBlob(i)]
        r == ParsePackInto({}, CreatePack(oids))
    IN /\ \A i \in 1..Len(oids) : HasObject(objects, oids[i])
       /\ last' = Last("roundTrip", oids, r.err, r.store)
       /\ UNCHANGED <<objects, refs, HEAD, index, sent, files, nops>>
       /\ UNCHANGED <<serverVars, resolver>>

NextDelta ==
    \/ \E i \in 1..2 : WriteBlob(i)
    \/ \E pack \in ReceivedPacks : ParseReceivedPack(pack)

SpecDelta == Init /\ [][NextDelta]_vars

NextPack ==
    \/ WriteBlob(ChainLen(objects) + 1)
    \/ PackRoundTrip

SpecPack == Init /\ [][NextPack]_vars

-----------------------------------------------------------------------------
(* GitDelta.  Byte sequences are sequences of 0..255; offsets are the     *)
(* code's, counted from 0.                                                 *)

MaxLiteral == 128

ChunkSize == 16

Run(n, b) == [i \in 1..n |-> b]

\* Uint8Array.slice(from, to), clamped to the array
Slice(s, from, to) ==
    LET t == IF to > Len(s) THEN Len(s) ELSE to
    IN IF from >= t THEN <<>> ELSE SubSeq(s, from + 1, t)

\* `x << shift` of JavaScript for a 7-bit x: the shift count is taken
\* modulo 32 and the result is a signed 32-bit integer
ShiftLeft(x, shift) ==
    LET k == shift % 32
        w == 32 - k
        keep == x % (2 ^ w)
    IN IF k <= 24 THEN x * (2 ^ k)
       ELSE IF keep >= 2 ^ (w - 1) THEN (keep - 2 ^ w) * (2 ^ k)
       ELSE keep * (2 ^ k)

\* writeVarInt for a value held as a signed 32-bit integer: `& 0x7f` is
\* the low seven bits of the two's complement and `>>= 7` keeps the sign
RECURSIVE WriteVarInt(_)
WriteVarInt(value) ==
    IF value >= 128 THEN <<(value % 128) + 128>> \o WriteVarInt(value \div 128)
    ELSE <<value % 128>>

\* ToInt32 of the number hi * 2^16 + lo, 0 <= hi, lo < 2^16
ToInt32(hi, lo) == IF hi >= 32768 THEN (hi - 65536) * 65536 + lo ELSE hi * 65536 + lo

\* writeVarInt for the number hi * 2^16 + lo: the comparison with 0x80 is
\* on the number, `&` and `>>=` are on its ToInt32
WriteVarIntUint32(hi, lo) ==
    IF hi > 0 \/ lo >= 128
    THEN <<(lo % 128) + 128>> \o WriteVarInt(ToInt32(hi, lo) \div 128)
    ELSE <<lo % 128>>

\* The while loop of readVarInt; bytesRead = 0 stands for "Incomplete varint"
RECURSIVE ReadVarIntLoop(_, _, _, _, _)
ReadVarIntLoop(data, offset, value, shift, bytesRead) ==
    IF offset + bytesRead >= Len(data) THEN [value |-> 0, bytesRead |-> 0]
    ELSE LET byte == data[offset + bytesRead + 1]
             v == BitOr(value, ShiftLeft(byte % 128, shift))
         IN IF byte < 128 THEN [value |-> v, bytesRead |-> bytesRead + 1]
            ELSE ReadVarIntLoop(data, offset, v, shift + 7, bytesRead + 1)

\* readVarInt(data, offset)
ReadVarInt(data, offset) == ReadVarIntLoop(data, offset, 0, 0, 0)

\* The while loop of GitDelta.#findBestMatch for one position
MatchSize(source, target, targetOffset, pos) ==
    LET a == Len(target) - targetOffset
        b == Len(source) - pos
        limit == IF a < b THEN a ELSE b
    IN CHOOSE k \in 0..limit :
          /\ \A j \in 0..(k - 1) : target[targetOffset + j + 1] = source[pos + j + 1]
          /\ k = limit \/ target[targetOffset + k + 1] # source[pos + k + 1]

\* GitDelta.#findBestMatch; size 0 stands for null.  The chunk hash only
\* selects the positions to try; equal chunks have equal hashes.
FindBestMatch(source, target, targetOffset) ==
    LET positions == {p \in 0..(Len(source) - ChunkSize) :
                         Slice(source, p, p + ChunkSize) =
                         Slice(target, targetOffset, targetOffset + ChunkSize)}
        best == CHOOSE p \in positions :
                   \A q \in positions :
                      LET mp == MatchSize(source, target, targetOffset, p)
                          mq == MatchSize(source, target, targetOffset, q)
                      IN mq < mp \/ (mq = mp /\ p <= q)
    IN IF targetOffset + ChunkSize > Len(target) \/ positions = {}
       THEN [offset |-> 0, size |-> 0]
       ELSE [offset |-> best, size |-> MatchSize(source, target, targetOffset, best)]

InsertOf(data) == [type |-> "insert", offset |-> 0, size |-> 0, data |-> data]

\* The main loop of GitDelta.createDelta: the instructions.  The bytes up
\* to the next offset with a match of a chunk or more are the pending
\* insert, flushed whole before the copy or at the end.
RECURSIVE Instructions(_, _, _)
Instructions(source, target, targetOffset) ==
    LET matches == {t \in targetOffset..(Len(target) - 1) :
                       FindBestMatch(source, target, t).size >= ChunkSize}
        stop == IF matches = {} THEN Len(target)
                ELSE CHOOSE t \in matches : \A u \in matches : t <= u
        pendingInsert == Slice(target, targetOffset, stop)
        flush == IF Len(pendingInsert) > 0 THEN <<InsertOf(pendingInsert)>> ELSE <<>>
        bestMatch == FindBestMatch(source, target, stop)
    IN IF targetOffset >= Len(target) THEN <<>>
       ELSE IF stop = Len(target) THEN flush
       ELSE flush \o <<[type |-> "copy", offset |-> bestMatch.offset,
                        size |-> bestMatch.size, data |-> <<>>]>>
                  \o Instructions(source, target, stop + bestMatch.size)

ByteOf(v, k) == (v \div (256 ^ k)) % 256

\* GitDelta.#encodeCopyInstruction
EncodeCopyInstruction(offset, size) ==
    LET has == [k \in 0..6 |-> IF k < 4 THEN ByteOf(offset, k) # 0
                               ELSE ByteOf(size, k - 4) # 0]
        byte(k) == IF k < 4 THEN ByteOf(offset, k) ELSE ByteOf(size, k - 4)
        bytesFrom[k \in 0..7] ==
            IF k = 7 THEN <<>>
            ELSE (IF has[k] THEN <<byte(k)>> ELSE <<>>) \o bytesFrom[k + 1]
        flags[k \in 0..7] ==
            IF k = 7 THEN 0 ELSE (IF has[k] THEN 2 ^ k ELSE 0) + flags[k + 1]
    IN <<128 + flags[0]>> \o bytesFrom[0]

\* GitDelta.#encodeInsertInstruction: the one that splits nothing
EncodeInsertInstruction(data) == <<Len(data)>> \o data

\* GitDelta.#encodeInstructions after createDelta's loop: the delta, or the
\* error that #encodeInsertInstruction throws
CreateDelta(source, target) ==
    LET instructions == Instructions(source, target, 0)
        encoded[i \in 0..Len(instructions)] ==
            IF i = 0 THEN WriteVarInt(Len(source)) \o WriteVarInt(Len(target))
            ELSE encoded[i - 1] \o
                 (IF instructions[i].type = "copy"
                  THEN EncodeCopyInstruction(instructions[i].offset, instructions[i].size)
                  ELSE EncodeInsertInstruction(instructions[i].data))
    IN IF \E i \in 1..Len(instructions) :
             /\ instructions[i].type = "insert"
             /\ Len(instructions[i].data) = 0 \/ Len(instructions[i].data) > 127
       THEN [err |-> "Invalid insert size", delta |-> <<>>]
       ELSE [err |-> "", delta |-> encoded[Len(instructions)]]

\* The instruction loop of GitDelta.applyDelta
RECURSIVE ApplyInstructions(_, _, _, _, _)
ApplyInstructions(base, delta, deltaOffset, result, resultOffset) ==
    LET cmd == delta[deltaOffset + 1]
        has(k) == (cmd \div (2 ^ k)) % 2 = 1
        before(k) == Cardinality({j \in 0..(k - 1) : has(j)})
        arg(k) == IF ~has(k) THEN 0
                  ELSE IF deltaOffset + 1 + before(k) >= Len(delta) THEN 0
                  ELSE delta[deltaOffset + 1 + before(k) + 1]
        copyOffset == arg(0) + 256 * arg(1) + 65536 * arg(2) + 16777216 * arg(3)
        read == arg(4) + 256 * arg(5) + 65536 * arg(6)
        copySize == IF read = 0 THEN 65536 ELSE read
        isCopy == cmd >= 128
        data == IF isCopy THEN Slice(base, copyOffset, copyOffset + copySize)
                ELSE Slice(delta, deltaOffset + 1, deltaOffset + 1 + cmd)
        step == IF isCopy THEN copySize ELSE cmd
        nextOffset == IF isCopy THEN deltaOffset + 1 + before(7)
                      ELSE deltaOffset + 1 + cmd
    IN IF deltaOffset >= Len(delta)
       THEN IF resultOffset # Len(result)
            THEN [err |-> "Result size mismatch", result |-> result]
            ELSE [err |-> "", result |-> result]
       ELSE IF cmd = 0
       THEN [err |-> "Invalid delta instruction", result |-> result]
       ELSE IF resultOffset + Len(data) > Len(result)
       THEN [err |-> "RangeError", result |-> result]
       ELSE ApplyInstructions(base, delta, nextOffset,
                [i \in 1..Len(result) |->
                    IF i > resultOffset /\ i <= resultOffset + Len(data)
                    THEN data[i - resultOffset] ELSE result[i]],
                resultOffset + step)

\* GitDelta.applyDelta(base, delta)
ApplyDelta(base, delta) ==
    LET baseSize == ReadVarInt(delta, 0)
        targetSize == ReadVarInt(delta, baseSize.bytesRead)
    IN IF baseSize.bytesRead = 0 \/ targetSize.bytesRead = 0
       THEN [err |-> "Incomplete varint", result |-> <<>>]
       ELSE IF baseSize.value # Len(base)
       THEN [err |-> "Base size mismatch", result |-> <<>>]
       ELSE ApplyInstructions(base, delta, baseSize.bytesRead + targetSize.bytesRead,
                              Run(targetSize.value, 0), 0)

DeltaSources ==
    {<<>>, Run(ChunkSize, 1), Run(ChunkSize, 1) \o <<2, 1, 2, 1>>,
     Run(ChunkSize + 4, 3), <<1, 2, 3>>}

LiteralLengths ==
    {0, 1, 2, ChunkSize, ChunkSize + 1, MaxLiteral - 2, MaxLiteral - 1, MaxLiteral}

DeltaTargets(source) ==
    UNION {{Run(n, 2), source \o Run(n, 2), Run(n, 2) \o source,
            source \o Run(n, 2) \o source} : n \in LiteralLengths}

\* The inputs of one round trip
InitGitDelta ==
    /\ ServerIdle
    /\ objects = {}
    /\ refs = EmptyMap
    /\ HEAD = <<"ref", Main>>
    /\ index = <<>>
    /\ sent = <<>>
    /\ files = EmptyMap
    /\ resolver = EmptyMap
    /\ nops = 0
    /\ \E source \in DeltaSources : \E target \in DeltaTargets(source) :
          last = [op |-> "input", arg |-> <<source, target>>, ok |-> TRUE,
                  err |-> "", ret |-> <<>>,
                  refs0 |-> EmptyMap, HEAD0 |-> <<"ref", Main>>,
                  index0 |-> <<>>, objects0 |-> {}, sent0 |-> <<>>]

\* GitDelta.createDelta(source, target) on the inputs
DeltaCreate ==
    LET c == CreateDelta(last.arg[1], last.arg[2])
    IN /\ last.op = "input"
       /\ last' = Last("createDelta", last.arg, c.err, c.delta)
       /\ UNCHANGED <<objects, refs, HEAD, index, sent, files, nops>>
       /\ UNCHANGED <<serverVars, resolver>>

\* GitDelta.applyDelta(source, delta) on the delta just created
DeltaApply ==
    LET a == ApplyDelta(last.arg[1], last.ret)
    IN /\ last.op = "createDelta"
       /\ last.ok
       /\ last' = Last("applyDelta", last.arg, a.err, a.result)
       /\ UNCHANGED <<objects, refs, HEAD, index, sent, files, nops>>
       /\ UNCHANGED <<serverVars, resolver>>

NextGitDelta == DeltaCreate \/ DeltaApply

SpecGitDelta == InitGitDelta /\ [][NextGitDelta]_vars

-----------------------------------------------------------------------------
(* GitMerge on trees.  The trees of the three sides are drawn from        *)
(* MergeTrees and stored, with everything they reach, before the merge.   *)

File(mode, name, lines) == <<mode, name, Blob(lines)>>

MergeTrees ==
    {Tree(<<>>),
     Tree(<<File("100644", "a", <<"x">>)>>),
     Tree(<<File("100644", "a", <<"y">>)>>),
     Tree(<<File("100644", "a", <<"x", "y">>)>>),
     Tree(<<File("100755", "a", <<"x">>)>>),
     Tree(<<File("100644", "b", <<"y">>)>>),
     Tree(<<File("100644", "a", <<"x">>), File("100644", "b", <<"y">>)>>),
     Tree(<<<<"40000", "d", Tree(<<File("100644", "a", <<"x">>)>>)>>>>)}

\* The three trees of one merge, in a store that holds them
InitMerge ==
    /\ ServerIdle
    /\ objects = UNION {Closure(t) : t \in MergeTrees}
    /\ refs = EmptyMap
    /\ HEAD = <<"ref", Main>>
    /\ index = <<>>
    /\ sent = <<>>
    /\ files = EmptyMap
    /\ resolver = EmptyMap
    /\ nops = 0
    /\ \E baseTree \in MergeTrees, ourTree \in MergeTrees, theirTree \in MergeTrees :
          last = [op |-> "input", arg |-> <<baseTree, ourTree, theirTree>>,
                  ok |-> TRUE, err |-> "", ret |-> NoOid,
                  refs0 |-> EmptyMap, HEAD0 |-> <<"ref", Main>>,
                  index0 |-> <<>>, objects0 |-> {}, sent0 |-> <<>>]

\* GitMerge.#recursiveMerge(baseTree, ourTree, theirTree) on the inputs
MergeTreesOp ==
    LET r == RecursiveMerge(objects, last.arg[1], last.arg[2], last.arg[3])
    IN /\ last.op = "input"
       /\ objects' = r.objs
       /\ last' = Last("recursiveMerge", last.arg,
                       IF r.thrown THEN "thrown"
                       ELSE IF r.success THEN "" ELSE "conflicts",
                       r.mergedTree)
       /\ UNCHANGED <<refs, HEAD, index, sent, files, nops>>
       /\ UNCHANGED <<serverVars, resolver>>

NextMerge == MergeTreesOp

SpecMerge == InitMerge /\ [][NextMerge]_vars

-----------------------------------------------------------------------------
(* receive-pack: the response to a request that could not be parsed.   *)
(* A text is the sequence of its characters.                             *)

MaxErrorLen == 60

ThrownMessages ==
    {<<"I", "n", "v", "a", "l", "i", "d", " ", "p", "a", "c", "k", " ",
     "s", "i", "g", "n", "a", "t", "u", "r", "e">>,
     <<"U", "n", "e", "x", "p", "e", "c", "t", "e", "d", " ", "e", "n",
     "d", " ", "o", "f", " ", "b", "u", "f", "f", "e", "r">>,
     <<"U", "n", "k", "n", "o", "w", "n", " ", "e", "r", "r", "o", "r">>}

\* The messages of the errors caught: the ones above and texts of every
\* length up to MaxErrorLen
ErrorMessages == ThrownMessages \cup {[i \in 1..n |-> "e"] : n \in 0..MaxErrorLen}

\* A receive-pack request whose parsing throws an error with this message
InitReceiveError ==
    /\ ServerIdle
    /\ objects = {}
    /\ refs = EmptyMap
    /\ HEAD = <<"ref", Main>>
    /\ index = <<>>
    /\ sent = <<>>
    /\ files = EmptyMap
    /\ resolver = EmptyMap
    /\ nops = 0
    /\ \E error \in ErrorMessages :
          last = [op |-> "input", arg |-> error, ok |-> TRUE, err |-> "",
                  ret |-> [status |-> 0, body |-> <<>>],
                  refs0 |-> EmptyMap, HEAD0 |-> <<"ref", Main>>,
                  index0 |-> <<>>, objects0 |-> {}, sent0 |-> <<>>]

\* The catch block of Server.#receivePack: `001f${error}\n0000`, status 400
ReceivePackCatch ==
    /\ last.op = "input"
    /\ last' = Last("receive-pack", last.arg, "parse error",
                    [status |-> 400,
                     body |-> <<"0", "0", "1", "f">> \o last.arg
                              \o <<"\n", "0", "0", "0", "0">>])
    /\ UNCHANGED <<objects, refs, HEAD, index, sent, files, nops>>
    /\ UNCHANGED <<serverVars, resolver>>

NextReceiveError == ReceivePackCatch

SpecReceiveError == InitReceiveError /\ [][NextReceiveError]_vars

-----------------------------------------------------------------------------
(* GitObjectStore on bytes.  The content of an object is its header and   *)
(* its data; the OID is written as the content it is the SHA-1 of, and    *)
(* the stored file is the deflate stream of the content.                  *)

ObjectKinds == {"blob", "tree", "commit", "tag"}

\* TextEncoder.encode of a kind
KindBytes(kind) ==
    CASE kind = "blob" -> <<98, 108, 111, 98>>
      [] kind = "tree" -> <<116, 114, 101, 101>>
      [] kind = "commit" -> <<99, 111, 109, 109, 105, 116>>
      [] kind = "tag" -> <<116, 97, 103>>

\* The decimal digits of data.length
RECURSIVE Decimal(_)
Decimal(n) == IF n < 10 THEN <<48 + n>> ELSE Decimal(n \div 10) \o <<48 + (n % 10)>>

\* GitObjectStore.writeObject: `${type} ${data.length}\0` and the data
ObjectContent(kind, data) == KindBytes(kind) \o <<32>> \o Decimal(Len(data)) \o <<0>> \o data

ObjectFilePath(oid) == <<".git", "objects", oid>>

\* readObject that takes the last 0 byte for the end of the header
ReadObjectFileLastNul(fs, oid) ==
    LET decompressed == fs[ObjectFilePath(oid)].deflate
        nuls == {i \in 1..Len(decompressed) : decompressed[i] = 0}
        nullIdx == IF nuls = {} THEN -1
                   ELSE (CHOOSE i \in nuls : \A j \in nuls : j <= i) - 1
        header == Slice(decompressed, 0, nullIdx)
        spaces == {i \in 1..Len(header) : header[i] = 32}
        typeBytes == IF spaces = {} THEN header
                     ELSE SubSeq(header, 1, (CHOOSE i \in spaces : \A j \in spaces : i <= j) - 1)
    IN IF ObjectFilePath(oid) \notin DOMAIN fs
       THEN [err |-> "not found", type |-> "", data |-> <<>>]
       ELSE [err |-> "",
             type |-> IF \E k \in ObjectKinds : KindBytes(k) = typeBytes
                      THEN CHOOSE k \in ObjectKinds : KindBytes(k) = typeBytes
                      ELSE "?",
             data |-> Slice(decompressed, nullIdx + 1, Len(decompressed))]

\* GitObjectStore.readObject: the file is decompressed, the header ends at
\* the first 0 byte, the type is the header up to its first space
ReadObjectFile(fs, oid) ==
    LET decompressed == fs[ObjectFilePath(oid)].deflate
        nuls == {i \in 1..Len(decompressed) : decompressed[i] = 0}
        nullIdx == IF nuls = {} THEN -1
                   ELSE (CHOOSE i \in nuls : \A j \in nuls : i <= j) - 1
        header == Slice(decompressed, 0, nullIdx)
        spaces == {i \in 1..Len(header) : header[i] = 32}
        typeBytes == IF spaces = {} THEN header
                     ELSE SubSeq(header, 1, (CHOOSE i \in spaces : \A j \in spaces : i <= j) - 1)
    IN IF ObjectFilePath(oid) \notin DOMAIN fs
       THEN [err |-> "not found", type |-> "", data |-> <<>>]
       ELSE [err |-> "",
             type |-> IF \E k \in ObjectKinds : KindBytes(k) = typeBytes
                      THEN CHOOSE k \in ObjectKinds : KindBytes(k) = typeBytes
                      ELSE "?",
             data |-> Slice(decompressed, nullIdx + 1, Len(decompressed))]

ObjectData == {<<>>, <<0>>, <<65>>, <<32>>, <<65, 0>>, <<0, 65>>}

\* GitObjectStore.writeObject(type, data)
ObjectWrite(kind, data) ==
    LET content == ObjectContent(kind, data)
    IN /\ Tick
       /\ files' = Put(files, ObjectFilePath(content), [deflate |-> content])
       /\ last' = Last("writeObject", <<kind, data>>, "", content)
       /\ UNCHANGED <<objects, refs, HEAD, index, sent>>

NextObject == \E kind \in ObjectKinds, data \in ObjectData : ObjectWrite(kind, data)

SpecObject == Init /\ [][NextObject]_vars

-----------------------------------------------------------------------------
(* writeVarInt and readVarInt on the unsigned 32-bit numbers.  A number   *)
(* is held as <<hi, lo>>, its two 16-bit halves.                          *)

\* The powers of two below 2^32 with their neighbours, and the values of
\* the round-trip test
VarIntValues ==
    {<<0, 2 ^ k>> : k \in 0..15} \cup {<<0, 2 ^ k - 1>> : k \in 0..16}
       \cup {<<0, 2 ^ k + 1>> : k \in 1..15}
       \cup {<<2 ^ k, 0>> : k \in 0..15} \cup {<<2 ^ k, 1>> : k \in 0..15}
       \cup {<<2 ^ k - 1, 65535>> : k \in 1..16}
       \cup {<<2 ^ k, 65535>> : k \in 0..14} \cup {<<31, 65535>>}

InitVarInt ==
    /\ ServerIdle
    /\ objects = {}
    /\ refs = EmptyMap
    /\ HEAD = <<"ref", Main>>
    /\ index = <<>>
    /\ sent = <<>>
    /\ files = EmptyMap
    /\ resolver = EmptyMap
    /\ nops = 0
    /\ \E v \in VarIntValues :
          last = [op |-> "input", arg |-> v, ok |-> TRUE,
                  err |-> "", ret |-> <<>>,
                  refs0 |-> EmptyMap, HEAD0 |-> <<"ref", Main>>,
                  index0 |-> <<>>, objects0 |-> {}, sent0 |-> <<>>]

\* writeVarInt(v)
VarIntWrite ==
    /\ last.op = "input"
    /\ last' = Last("writeVarInt", last.arg, "", WriteVarIntUint32(last.arg[1], last.arg[2]))
    /\ UNCHANGED <<objects, refs, HEAD, index, sent, files, nops>>
    /\ UNCHANGED <<serverVars, resolver>>

\* readVarInt(bytes, 0) on the bytes just written
VarIntRead ==
    LET r == ReadVarInt(last.ret, 0)
    IN /\ last.op = "writeVarInt"
       /\ last' = Last("readVarInt", <<last.arg, last.ret>>,
                       IF r.bytesRead = 0 THEN "Incomplete varint" ELSE "", r)
       /\ UNCHANGED <<objects, refs, HEAD, index, sent, files, nops>>
       /\ UNCHANGED <<serverVars, resolver>>

NextVarInt == VarIntWrite \/ VarIntRead

SpecVarInt == InitVarInt /\ [][NextVarInt]_vars

-----------------------------------------------------------------------------
(* Server.#uploadPack.  The server holds a history with a merge commit;   *)
(* the wants and haves of a request are drawn from its commits.           *)

UploadTreeA == Tree(<<File("100644", "a", <<"x">>)>>)
UploadTreeB == Tree(<<File("100644", "b", <<"y">>), <<"40000", "d", UploadTreeA>>>>)
UploadRoot == Commit(UploadTreeA, <<>>, "m1")
UploadSide == Commit(EmptyTree, <<>>, "m2")
UploadNext == Commit(UploadTreeB, <<UploadRoot>>, "m2")
UploadMerge == Commit(UploadTreeB, <<UploadNext, UploadSide>>, "merge")
UploadCommits == {UploadRoot, UploadSide, UploadNext, UploadMerge}

\* The while loop of #uploadPack over commitsToProcess: the objects to send
RECURSIVE UploadWalk(_, _, _, _, _)
UploadWalk(objs, haves, commitsToProcess, processedCommits, objectsToSend) ==
    IF Len(commitsToProcess) = 0 THEN objectsToSend
    ELSE LET commitOid == commitsToProcess[Len(commitsToProcess)]
             rest == SubSeq(commitsToProcess, 1, Len(commitsToProcess) - 1)
             parent == ParseCommitParent(commitOid)
         IN IF commitOid \in processedCommits \/ commitOid \in SeqRange(haves)
            THEN UploadWalk(objs, haves, rest, processedCommits, objectsToSend)
            ELSE IF ~HasObject(objs, commitOid) \/ Kind(commitOid) # "commit"
            THEN UploadWalk(objs, haves, rest, processedCommits \cup {commitOid},
                            objectsToSend \cup {commitOid})
            ELSE UploadWalk(objs, haves,
                            IF parent # NoOid THEN Append(rest, parent) ELSE rest,
                            processedCommits \cup {commitOid},
                            objectsToSend \cup {commitOid}
                               \cup CollectTreeObjects(objs, ParseCommitTree(commitOid)))

UploadLists(n) ==
    {<<>>} \cup {<<c>> : c \in UploadCommits} \cup
    (IF n < 2 THEN {} ELSE {<<c, d>> : c \in UploadCommits, d \in UploadCommits})

InitUpload ==
    /\ objects = {}
    /\ refs = EmptyMap
    /\ HEAD = <<"ref", Main>>
    /\ index = <<>>
    /\ sent = <<>>
    /\ files = EmptyMap
    /\ resolver = EmptyMap
    /\ nops = 0
    /\ sObjects = UNION {Closure(c) : c \in UploadCommits}
    /\ sRefs = Put(EmptyMap, GetRefPath(Main), UploadMerge)
    /\ req = <<>>
    /\ sLog = <<>>
    /\ \E wants \in UploadLists(2), haves \in UploadLists(2) :
          last = [op |-> "input", arg |-> <<wants, haves>>, ok |-> TRUE,
                  err |-> "", ret |-> {},
                  refs0 |-> EmptyMap, HEAD0 |-> <<"ref", Main>>,
                  index0 |-> <<>>, objects0 |-> {}, sent0 |-> <<>>]

\* Server.#uploadPack for the wants and haves of the request; the result
\* is the set of objects of the pack ("0000" and no pack without wants)
UploadPack ==
    /\ last.op = "input"
    /\ last' = Last("uploadPack", last.arg, "",
                    IF Len(last.arg[1]) = 0 THEN {}
                    ELSE UploadWalk(sObjects, last.arg[2], last.arg[1], {}, {}))
    /\ UNCHANGED <<objects, refs, HEAD, index, sent, files, nops>>
    /\ UNCHANGED <<serverVars, resolver>>

NextUpload == UploadPack

SpecUpload == InitUpload /\ [][NextUpload]_vars

-----------------------------------------------------------------------------
(* GitDelta.applyDelta on deltas that createDelta does not make: the      *)
(* header sizes and the instructions are drawn freely.                    *)

CopyOf(offset, size) == [type |-> "copy", offset |-> offset, size |-> size, data |-> <<>>]

\* An insert instruction whose command byte says `size` and that is
\* followed by the bytes `data`
InsertSized(size, data) == [type |-> "insert", offset |-> 0, size |-> size, data |-> data]

ApplyBases == {<<>>, <<1, 2>>, <<1, 2, 3>>}

ApplyInstructionLists ==
    {<<>>,
     <<CopyOf(0, 2)>>, <<CopyOf(1, 2)>>, <<CopyOf(0, 4)>>, <<CopyOf(2, 2)>>,
     <<InsertSized(2, <<7, 8>>)>>, <<InsertSized(3, <<7, 8>>)>>, <<InsertSized(1, <<7>>)>>,
     <<CopyOf(0, 2), InsertSized(2, <<7, 8>>)>>,
     <<CopyOf(0, 2), InsertSized(3, <<7, 8>>)>>,
     <<InsertSized(1, <<7>>), CopyOf(1, 3)>>}

\* The bytes of a delta: the two sizes as varints, then the instructions
EncodeDelta(sourceSize, targetSize, instructions) ==
    LET encoded[i \in 0..Len(instructions)] ==
            IF i = 0 THEN WriteVarInt(sourceSize) \o WriteVarInt(targetSize)
            ELSE encoded[i - 1] \o
                 (IF instructions[i].type = "copy"
                  THEN EncodeCopyInstruction(instructions[i].offset, instructions[i].size)
                  ELSE <<instructions[i].size>> \o instructions[i].data)
    IN encoded[Len(instructions)]

InitApplyDelta ==
    /\ ServerIdle
    /\ objects = {}
    /\ refs = EmptyMap
    /\ HEAD = <<"ref", Main>>
    /\ index = <<>>
    /\ sent = <<>>
    /\ files = EmptyMap
    /\ resolver = EmptyMap
    /\ nops = 0
    /\ \E base \in ApplyBases, sourceSize \in {0, 2, 3}, targetSize \in 0..5,
          instructions \in ApplyInstructionLists :
          last = [op |-> "input",
                  arg |-> [base |-> base, sourceSize |-> sourceSize,
                           targetSize |-> targetSize, instructions |-> instructions],
                  ok |-> TRUE, err |-> "",
                  ret |-> EncodeDelta(sourceSize, targetSize, instructions),
                  refs0 |-> EmptyMap, HEAD0 |-> <<"ref", Main>>,
                  index0 |-> <<>>, objects0 |-> {}, sent0 |-> <<>>]

\* GitDelta.applyDelta(base, delta) on the inputs
ApplyDeltaOp ==
    LET a == ApplyDelta(last.arg.base, last.ret)
    IN /\ last.op = "input"
       /\ last' = Last("applyDelta", last.arg, a.err, a.result)
       /\ UNCHANGED <<objects, refs, HEAD, index, sent, files, nops>>
       /\ UNCHANGED <<serverVars, resolver>>

NextApplyDelta == ApplyDeltaOp

SpecApplyDelta == InitApplyDelta /\ [][NextApplyDelta]_vars

-----------------------------------------------------------------------------
(* The body of a push on the wire.  Texts are sequences of characters;    *)
(* "NUL" is the character of code 0; an OID is 40 hex digits.             *)

HexDigits == <<"0", "1", "2", "3", "4", "5", "6", "7", "8", "9",
               "a", "b", "c", "d", "e", "f">>

Chars(n, c) == [i \in 1..n |-> c]

WireOids ==
    {Chars(40, "0"), Chars(40, "a"), <<"0", "0", "1", "2">> \o Chars(36, "b"),
     <<"0", "0", "6", "2">> \o Chars(36, "c")}

WireRefs ==
    {<<"r", "e", "f", "s", "/", "h", "e", "a", "d", "s", "/", "m", "a", "i", "n">>,
     <<"r", "e", "f", "s", "/", "h", "e", "a", "d", "s", "/", "d", "e", "v">>}

WireUpdates == [ref : WireRefs, old : WireOids, new : WireOids]

WireUpdateLists ==
    {<<>>} \cup {<<u>> : u \in WireUpdates} \cup
    {<<u, v>> : u \in {w \in WireUpdates : w.old = Chars(40, "0")},
                v \in {w \in WireUpdates : w.new = Chars(40, "a")}}

\* The bytes of a pack, as far as the parser of commands looks at them
WirePacks == {<<>>, <<"P", "A", "C", "K", "#">>}

\* GitProtocol.pushPack: the body of the request
PushPackBody(updates, packData) ==
    LET lines[i \in 0..Len(updates)] ==
            IF i = 0 THEN <<>>
            ELSE lines[i - 1] \o updates[i].old \o <<" ">> \o updates[i].new
                    \o <<" ">> \o updates[i].ref \o <<"NUL">>
    IN lines[Len(updates)] \o <<"0", "0", "0", "0">> \o packData

IsSpace(c) == c \in {" ", "\n"}

\* String.prototype.trim
RECURSIVE Trim(_)
Trim(s) ==
    IF Len(s) = 0 THEN s
    ELSE IF IsSpace(s[1]) THEN Trim(Tail(s))
    ELSE IF IsSpace(s[Len(s)]) THEN Trim(SubSeq(s, 1, Len(s) - 1))
    ELSE s

\* parseInt(s, 16): leading white space is skipped, the longest prefix of
\* hex digits is the number, none is NaN
RECURSIVE HexPrefix(_, _)
HexPrefix(s, value) ==
    IF Len(s) = 0 \/ s[1] \notin SeqRange(HexDigits) THEN value
    ELSE HexPrefix(Tail(s), 16 * value + (CHOOSE i \in 0..15 : HexDigits[i + 1] = s[1]))

RECURSIVE SkipSpace(_)
SkipSpace(s) == IF Len(s) > 0 /\ IsSpace(s[1]) THEN SkipSpace(Tail(s)) ELSE s

ParseInt16(s) ==
    LET t == SkipSpace(s)
    IN IF Len(t) = 0 \/ t[1] \notin SeqRange(HexDigits)
       THEN [nan |-> TRUE, value |-> 0]
       ELSE [nan |-> FALSE, value |-> HexPrefix(t, 0)]

\* Server.#readPktLine(data, offset); nan: nextIdx is NaN
ReadPktLine(data, offset) ==
    LET lengthStr == Slice(data, offset, offset + 4)
        length == ParseInt16(lengthStr)
    IN IF offset + 4 > Len(data)
       THEN [null |-> TRUE, content |-> <<>>, nextIdx |-> 0, nan |-> FALSE, data |-> <<>>]
       ELSE IF length.nan
       THEN [null |-> FALSE, content |-> <<>>, nextIdx |-> 0, nan |-> TRUE, data |-> lengthStr]
       ELSE IF length.value = 0
       THEN [null |-> FALSE, content |-> <<>>, nextIdx |-> offset + 4, nan |-> FALSE,
             data |-> <<"0", "0", "0", "0">>]
       ELSE IF offset + length.value > Len(data)
       THEN [null |-> TRUE, content |-> <<>>, nextIdx |-> 0, nan |-> FALSE, data |-> <<>>]
       ELSE [null |-> FALSE, content |-> Slice(data, offset + 4, offset + length.value),
             nextIdx |-> offset + length.value, nan |-> FALSE, data |-> lengthStr]

\* text.split("\0")[0]
BeforeNul(text) ==
    LET nuls == {i \in 1..Len(text) : text[i] = "NUL"}
    IN IF nuls = {} THEN text
       ELSE SubSeq(text, 1, (CHOOSE i \in nuls : \A j \in nuls : i <= j) - 1)

IsOidText(s) == Len(s) = 40 /\ \A i \in 1..40 : s[i] \in SeqRange(HexDigits)

\* refUpdate.match(/^([0-9a-f]{40}) ([0-9a-f]{40}) (.+)$/)
MatchesCommand(refUpdate) ==
    /\ Len(refUpdate) >= 83
    /\ IsOidText(SubSeq(refUpdate, 1, 40))
    /\ refUpdate[41] = " "
    /\ IsOidText(SubSeq(refUpdate, 42, 81))
    /\ refUpdate[82] = " "
    /\ \A i \in 83..Len(refUpdate) : refUpdate[i] # "\n"

\* The loop of Server.#receivePack that reads the commands, and the pack
\* data that follows them
RECURSIVE ParseCommands(_, _, _)
ParseCommands(fullData, idx, refUpdates) ==
    LET line == ReadPktLine(fullData, idx)
        refUpdate == Trim(BeforeNul(line.content))
    IN IF idx >= Len(fullData) \/ line.null
       THEN [updates |-> refUpdates, pack |-> Slice(fullData, idx, Len(fullData))]
       ELSE IF line.nan
       THEN [updates |-> refUpdates, pack |-> fullData]
       ELSE IF line.data = <<"0", "0", "0", "0">>
       THEN [updates |-> refUpdates, pack |-> Slice(fullData, line.nextIdx, Len(fullData))]
       ELSE ParseCommands(fullData, line.nextIdx,
               IF MatchesCommand(refUpdate)
               THEN Append(refUpdates, [old |-> SubSeq(refUpdate, 1, 40),
                                        new |-> SubSeq(refUpdate, 42, 81),
                                        ref |-> SubSeq(refUpdate, 83, Len(refUpdate))])
               ELSE refUpdates)

InitWire ==
    /\ ServerIdle
    /\ objects = {}
    /\ refs = EmptyMap
    /\ HEAD = <<"ref", Main>>
    /\ index = <<>>
    /\ sent = <<>>
    /\ files = EmptyMap
    /\ resolver = EmptyMap
    /\ nops = 0
    /\ \E updates \in WireUpdateLists, packData \in WirePacks :
          last = [op |-> "input", arg |-> [refs |-> updates, pack |-> packData],
                  ok |-> TRUE, err |-> "", ret |-> <<>>,
                  refs0 |-> EmptyMap, HEAD0 |-> <<"ref", Main>>,
                  index0 |-> <<>>, objects0 |-> {}, sent0 |-> <<>>]

\* GitProtocol.pushPack builds the body and posts it
PushPackOp ==
    /\ last.op = "input"
    /\ last' = Last("pushPack", last.arg, "", PushPackBody(last.arg.refs, last.arg.pack))
    /\ UNCHANGED <<objects, refs, HEAD, index, sent, files, nops>>
    /\ UNCHANGED <<serverVars, resolver>>

\* Server.#receivePack reads the commands and the pack data of that body
ReceiveParse ==
    /\ last.op = "pushPack"
    /\ last' = Last("receive", last.arg, "", ParseCommands(last.ret, 0, <<>>))
    /\ UNCHANGED <<objects, refs, HEAD, index, sent, files, nops>>
    /\ UNCHANGED <<serverVars, resolver>>

NextWire == PushPackOp \/ ReceiveParse

SpecWire == InitWire /\ [][NextWire]_vars

-----------------------------------------------------------------------------
(* ConflictResolver.  An entry is [path, ours, theirs, resolved,          *)
(* resolution]; "undefined" is the value of a property that is not set     *)
(* and of an argument that is not passed.                                  *)

ConflictPaths == {<<"a">>, <<"b">>}

ConflictEntry(path) ==
    [path |-> path, ours |-> "o", theirs |-> "t",
     resolved |-> FALSE, resolution |-> "undefined"]

Resolutions == {"ours", "theirs", "manual"}

ManualContents == {"undefined", "", "m"}

\* ConflictResolver.addConflict(conflict)
AddConflict(path) ==
    /\ nops < MaxOps
    /\ nops' = nops + 1
    /\ resolver' = Put(resolver, path, ConflictEntry(path))
    /\ last' = Last("addConflict", [path |-> path], "", NoOid)
    /\ UNCHANGED <<objects, refs, HEAD, index, sent, files>>
    /\ UNCHANGED serverVars

\* ConflictResolver.resolveConflict(path, resolution, manualContent):
\* `conflict.resolved = true` comes before the switch over the resolution
ResolveConflict(path, resolution, manualContent) ==
    LET arg == [path |-> path, resolution |-> resolution, manualContent |-> manualContent]
        conflict == resolver[path]
    IN /\ nops < MaxOps
       /\ nops' = nops + 1
       /\ IF path \notin DOMAIN resolver
          THEN /\ last' = Last("resolveConflict", arg, "No conflict found for path", NoOid)
               /\ UNCHANGED resolver
          ELSE IF resolution = "manual" /\ manualContent \in {"undefined", ""}
          THEN /\ resolver' = [resolver EXCEPT ![path] =
                                  [conflict EXCEPT !.resolved = TRUE]]
               /\ last' = Last("resolveConflict", arg,
                               "Manual resolution requires content", NoOid)
          ELSE /\ resolver' = [resolver EXCEPT ![path] =
                     [conflict EXCEPT !.resolved = TRUE,
                                      !.resolution =
                                         CASE resolution = "ours" -> conflict.ours
                                           [] resolution = "theirs" -> conflict.theirs
                                           [] OTHER -> manualContent]]
               /\ last' = Last("resolveConflict", arg, "", NoOid)
       /\ UNCHANGED <<objects, refs, HEAD, index, sent, files>>
       /\ UNCHANGED serverVars

\* ConflictResolver.getUnresolvedConflicts
GetUnresolvedConflicts(c) == {p \in DOMAIN c : ~c[p].resolved}

\* ConflictResolver.clear
ClearConflicts ==
    /\ nops < MaxOps
    /\ nops' = nops + 1
    /\ resolver' = EmptyMap
    /\ last' = Last("clear", [path |-> <<>>], "", NoOid)
    /\ UNCHANGED <<objects, refs, HEAD, index, sent, files>>
    /\ UNCHANGED serverVars

NextResolver ==
    \/ \E p \in ConflictPaths : AddConflict(p)
    \/ \E p \in ConflictPaths, r \in Resolutions, m \in ManualContents :
          ResolveConflict(p, r, m)
    \/ ClearConflicts

SpecResolver == Init /\ [][NextResolver]_vars

-----------------------------------------------------------------------------
(* Properties of the server *)

\* C1: the requests to one repository are serialized: the ref updates and
\* the pack ingestion of one request never interleave with those of
\* another -- in the order of the storage mutations, the mutations of a
\* request are consecutive
C1_Serialized ==
    \A i, k \in DOMAIN sLog :
        (i < k /\ sLog[i] = sLog[k]) =>
            \A j \in i..k : sLog[j] = sLog[i]

\* C2: a receive-pack request whose abort signal fired before its first
\* ref write ends with 499 and has created, changed or deleted no ref.
\* (Asked of the requests whose pack parses: one whose pack does not is
\* answered 400 and writes no ref, whatever its signal.)
C2_AbortBeforeRefWrite ==
    \A r \in DOMAIN req :
        (req[r].pc = "done" /\ req[r].abortedEarly /\ ~req[r].pack.fault) =>
            (req[r].status = 499 /\ req[r].wrote = 0)

\* C3: in every receive-pack request the pack parse (first pass, delta
\* resolution, object storage) has completed before the request's first
\* ref write or delete, and a request whose parse fails changes no ref
C3_ParseBeforeRefs ==
    \A r \in DOMAIN req :
        /\ (req[r].wrote > 0 /\ req[r].pack.present) =>
               (req[r].parse = "done" /\ req[r].toStore = <<>>
                /\ SeqRange(req[r].pack.objs) \subseteq sObjects)
        /\ req[r].pack.fault => req[r].wrote = 0
        /\ (req[r].pack.fault /\ req[r].pc = "done" /\ ~req[r].abortedEarly)
               => (req[r].parse = "failed" /\ req[r].status = 400)

\* One request has written a ref after its pack was stored, and another
\* has ended on a pack that failed to parse
C3_Witness ==
    \E r, q \in DOMAIN req :
        /\ req[r].pack.present /\ req[r].wrote > 0
        /\ req[q].pack.fault /\ req[q].parse = "failed"
        /\ req[q].pc = "done"

\* C4: once the requests have ended, every ref whose value is an OID
\* names an object that is in the object store with its whole closure
C4_RefsClosed ==
    (\A r \in DOMAIN req : req[r].pc = "done") =>
        \A n \in DOMAIN sRefs : Closure(sRefs[n]) \subseteq sObjects

\* The last command of a request that names the ref of command i
IsLastFor(r, i) ==
    \A j \in DOMAIN req[r].commands :
        req[r].commands[j].ref = req[r].commands[i].ref => j <= i

\* C6: when a receive-pack request completes successfully, for every
\* command (the last one winning when a ref is named twice) the ref is
\* gone if new-oid is all zeros and has the value new-oid otherwise
C6_CommandsApplied ==
    \A r \in DOMAIN req :
        req[r].status = 200 =>
            \A i \in DOMAIN req[r].commands :
                IsLastFor(r, i) =>
                    LET update == req[r].commands[i]
                    IN ReadRef(req[r].refsAtEnd, update.ref)
                         = IF update.new = ZeroOid THEN NoOid ELSE update.new

\* C27: a step of receive-pack that applies a ref-update command changes
\* the ref only if the command's old-oid is the value the ref has on the
\* server at that moment, the zero OID standing for a ref that is absent
C27_OldOidCompared ==
    [][\A r \in DOMAIN req :
          req'[r].wrote = req[r].wrote + 1 =>
             LET update == req[r].commands[req[r].next]
                 current == ReadRef(sRefs, update.ref)
             IN \/ update.old = (IF current = NoOid THEN ZeroOid ELSE current)
                \/ ReadRef(sRefs', update.ref) = current]_vars

-----------------------------------------------------------------------------
(* Properties of the client operations *)

\* HEAD is `ref: refs/heads/<b>` with refs/heads/<b> an existing ref, or
\* the OID of a stored object
HeadWellFormed ==
    \/ /\ HEAD[1] = "ref"
       /\ Len(HEAD[2]) = 3
       /\ HEAD[2][1] = "refs" /\ HEAD[2][2] = "heads"
       /\ HEAD[2] \in DOMAIN refs
    \/ /\ HEAD[1] = "oid"
       /\ HasObject(objects, HEAD[2])

\* C5: after any sequence of client operations HEAD is a symbolic ref to a
\* branch that exists as a ref, or a valid OID.  The unborn branch HEAD
\* names right after init is not held against the statement: it is asked
\* only of repositories that have a branch.
C5_HeadWellFormed ==
    (\E r \in DOMAIN refs : Len(r) = 3 /\ r[1] = "refs" /\ r[2] = "heads")
        => HeadWellFormed

\* The value of push's `old`: the remote-tracking ref before the push, or
\* the zero OID
PushOld(b) ==
    IF ReadRef(last.refs0, TrackingRef(b)) # NoOid
    THEN ReadRef(last.refs0, TrackingRef(b)) ELSE ZeroOid

\* The push got as far as the check of sendPack: the local branch exists
PushReachedCheck ==
    /\ last.op = "push"
    /\ ReadRef(last.refs0, BranchRef(last.arg.branch)) # NoOid

\* The push sent nothing and left the remote-tracking ref alone
PushDidNothing ==
    /\ sent = last.sent0
    /\ ReadRef(refs, TrackingRef(last.arg.branch))
         = ReadRef(last.refs0, TrackingRef(last.arg.branch))

\* The remote-tracking ref changes only with a successful send, and then
\* to the pushed OID
TrackingOnlyAfterSend ==
    last.op = "push" =>
        \A b \in BranchNames :
            ReadRef(refs, TrackingRef(b)) # ReadRef(last.refs0, TrackingRef(b))
            => /\ last.ok
               /\ b = last.arg.branch
               /\ Len(sent) = Len(last.sent0) + 1
               /\ sent[Len(sent)].update.new = ReadRef(refs, TrackingRef(b))
               /\ ReadRef(refs, TrackingRef(b)) = ReadRef(last.refs0, BranchRef(b))

C8_CommitAdvancesBranch ==
    (last.op = "commit" /\ last.HEAD0[1] = "ref") =>
        LET b == GetRefPath(last.HEAD0[2])
            c == last.ret
        IN /\ last.ok
           /\ Kind(c) = "commit"
           /\ HasObject(objects, c)
           /\ c[3] = IF b \in DOMAIN last.refs0 THEN <<last.refs0[b]>> ELSE <<>>
           /\ b \in DOMAIN refs /\ refs[b] = c
           /\ DOMAIN refs = DOMAIN last.refs0 \cup {b}
           /\ \A r \in DOMAIN last.refs0 : r # b => refs[r] = last.refs0[r]

\* A commit on a branch that existed, in a repository with another branch
C8_Witness ==
    /\ last.op = "commit" /\ last.HEAD0[1] = "ref"
    /\ GetRefPath(last.HEAD0[2]) \in DOMAIN last.refs0
    /\ Cardinality(DOMAIN last.refs0) >= 2
    /\ Len(last.ret[3]) = 1

\* C9: the tree a commit records contains every index entry, with its
\* mode and blob, at the entry's full path (through subtrees)
C9_TreeHoldsIndex ==
    last.op = "commit" =>
        TreeLeaves(objects, ParseCommitTree(last.ret), <<>>)
            = {Entry(e.path, e.oid, e.mode) : e \in SeqRange(last.index0)}

\* The three-way merge of the trees of three commits, on the state
\* before the merge
MergeOfTrees(base, ours, theirs) ==
    RecursiveMerge(last.objects0, ParseCommitTree(base),
                   ParseCommitTree(ours), ParseCommitTree(theirs))

\* C10: when the HEAD commit and the commit to merge have a common
\* first-parent ancestor and the three-way merge of their trees is free of
\* conflicts, Client.merge succeeds with a commit whose parents are the
\* HEAD commit and the merged commit, in this order, and moves the
\* current branch to it
C10_MergeSucceeds ==
    LET ours == GetCurrentCommitOid(last.HEAD0, last.refs0)
        theirs == ResolveRef(last.refs0, last.arg)
        anc == FindCommonAncestor(last.objects0, ours, theirs)
    IN (/\ last.op = "merge"
        /\ ours # NoOid
        /\ HasObject(last.objects0, theirs) /\ Kind(theirs) = "commit"
        /\ ~anc.thrown /\ anc.oid # NoOid
        /\ ~MergeOfTrees(anc.oid, ours, theirs).thrown
        /\ MergeOfTrees(anc.oid, ours, theirs).success)
       => /\ last.ok
          /\ Kind(last.ret) = "commit"
          /\ last.ret[3] = <<ours, theirs>>
          /\ ReadRef(refs, GetCurrentHead(last.HEAD0)) = last.ret

-----------------------------------------------------------------------------
(* Properties of the index *)

\* The entries are in strictly increasing order of path: sorted, and no
\* two of them share a path
SortedByPath(idx) ==
    \A i, j \in DOMAIN idx : i < j => PathLess(idx[i].path, idx[j].path)

PathsOf(idx) == {idx[i].path : i \in DOMAIN idx}

\* C11: after any sequence of addEntry and removeEntry calls getEntries()
\* is sorted by path with unique paths; addEntry leaves exactly its entry
\* at the entry's path, removeEntry leaves none, and both leave the
\* entries of the other paths as they were
C11_IndexSortedUnique ==
    /\ SortedByPath(index)
    /\ last.op = "addEntry" =>
          /\ SeqRange(index) =
               {e \in SeqRange(last.index0) : e.path # last.arg.path}
                  \cup {last.arg}
    /\ last.op = "removeEntry" =>
          /\ SeqRange(index) = {e \in SeqRange(last.index0) : e.path # last.arg}

\* addEntry has replaced the entry of a path that sorts first, in an index
\* of three entries
C11_Witness ==
    /\ last.op = "addEntry"
    /\ last.arg.path \in PathsOf(last.index0)
    /\ last.arg \notin SeqRange(last.index0)
    /\ Len(index) = 3
    /\ index[1] = last.arg


\* C12: the index entries are sorted by path with unique paths after
\* every index mutation, updateFromTree included, whatever the tree
\* object and the order of the entries inside it
C12_IndexSortedAfterTree == SortedByPath(index)


-----------------------------------------------------------------------------
(* Properties of the object store *)

\* C13: no operation deletes or replaces an object: every object that could
\* be read before an operation can be read after it
C13_ObjectsKept == last.objects0 \subseteq objects


-----------------------------------------------------------------------------
(* Properties of packs *)

\* C14: parsePack fails with UnresolvedDelta whenever a delta of the pack
\* is still unresolved after the resolution passes
C14_UnresolvedDeltaFails ==
    (/\ last.op = "parsePack"
     /\ last.arg.signature = "PACK"
     /\ ParsePackInto(last.objects0, last.arg).unresolved > 0)
        => last.err = "UnresolvedDelta"

\* C15: parsing the pack that createPack makes of a collection of objects
\* into an empty store yields exactly those objects
C15_PackRoundTrip ==
    last.op = "roundTrip" => (last.ok /\ last.ret = SeqRange(last.arg))


\* C16: createDelta(source, target) returns a delta for every source and
\* target, and applyDelta(source, that delta) is the target
C16_DeltaRoundTrip ==
    /\ last.op = "createDelta" => last.ok
    /\ last.op = "applyDelta" => (last.ok /\ last.ret = last.arg[2])


-----------------------------------------------------------------------------
(* Properties of the merge of trees *)

\* C17: merge(T, T, T) = T, merge(B, B, X) = X and merge(B, X, B) = X: the
\* merge succeeds and the merged tree is the stated tree
C17_MergeIdentities ==
    LET baseTree == last.arg[1]
        ourTree == last.arg[2]
        theirTree == last.arg[3]
    IN last.op = "recursiveMerge" =>
          /\ baseTree = ourTree => (last.ok /\ last.ret = theirTree)
          /\ baseTree = theirTree => (last.ok /\ last.ret = ourTree)

\* The blob at a top-level path of a tree, NoOid when the tree has none
BlobAt(tree, name) ==
    LET e == GetTreeEntry(last.objects0, tree, <<name>>)
    IN IF e = NoEntry THEN NoOid ELSE e[3]

\* C18: a path absent from the base and present in ours and in theirs with
\* different OIDs is a conflict, and the merge fails
C18_AddAddConflict ==
    (/\ last.op = "recursiveMerge"
     /\ \E name \in {"a", "b"} :
           /\ BlobAt(last.arg[1], name) = NoOid
           /\ BlobAt(last.arg[2], name) # NoOid
           /\ BlobAt(last.arg[3], name) # NoOid
           /\ BlobAt(last.arg[2], name) # BlobAt(last.arg[3], name))
        => last.err = "conflicts"


-----------------------------------------------------------------------------
(* Properties of the receive-pack error response *)

\* The value of a 4-hex-digit pkt-line length, -1 when it is not one
HexValue(s) ==
    LET digit(c) == CHOOSE i \in 0..15 : HexDigits[i + 1] = c
    IN IF Len(s) = 4 /\ \A i \in 1..4 : s[i] \in SeqRange(HexDigits)
       THEN 4096 * digit(s[1]) + 256 * digit(s[2]) + 16 * digit(s[3]) + digit(s[4])
       ELSE -1

\* C19: a receive-pack request that cannot be parsed is answered with
\* status 400 and a body of exactly one pkt-line, whose length field is the
\* length of the error text payload plus 4, followed by the flush packet
C19_ErrorPktLine ==
    LET body == last.ret.body
        payload == last.arg \o <<"\n">>
    IN last.op = "receive-pack" =>
          /\ last.ret.status = 400
          /\ Len(body) = 4 + Len(payload) + 4
          /\ HexValue(SubSeq(body, 1, 4)) = Len(payload) + 4
          /\ SubSeq(body, 5, 4 + Len(payload)) = payload
          /\ SubSeq(body, Len(body) - 3, Len(body)) = <<"0", "0", "0", "0">>


-----------------------------------------------------------------------------
(* Properties of the ref store *)

\* C20: reading the ref named HEAD through the ref store returns the
\* content of .git/HEAD: the symbolic target, or the OID stored there
C20_HeadRefReadsHeadFile ==
    (last.op = "commit" /\ last.ok) => ReadRef(refs, <<"HEAD">>) = HEAD[2]


-----------------------------------------------------------------------------
(* Properties of the object store on bytes *)

\* C21: reading an object that was written returns the kind and the bytes
\* written, whatever other objects were written since
C21_ObjectRoundTrip ==
    \A kind \in ObjectKinds, data \in ObjectData :
       ObjectFilePath(ObjectContent(kind, data)) \in DOMAIN files =>
          ReadObjectFile(files, ObjectContent(kind, data)) =
             [err |-> "", type |-> kind, data |-> data]

C21_Witness ==
    /\ last.op = "writeObject"
    /\ Cardinality(DOMAIN files) >= 3
    /\ ObjectFilePath(ObjectContent("tag", <<0, 65>>)) \in DOMAIN files
    /\ last.arg[2] # <<0, 65>>


-----------------------------------------------------------------------------
(* Properties of the varints *)

\* C22: for every v with 0 <= v < 2^32, readVarInt(writeVarInt(v), 0) has
\* the value v and has read as many bytes as the encoding is long
C22_VarIntRoundTrip ==
    last.op = "readVarInt" =>
       /\ last.ok
       /\ last.ret.bytesRead = Len(last.arg[2])
       /\ last.arg[1][1] < 32768
       /\ last.ret.value = last.arg[1][1] * 65536 + last.arg[1][2]

\* The same below 2^31
VarIntRoundTripInt32 ==
    (last.op = "readVarInt" /\ last.arg[1][1] < 32768) =>
       /\ last.ok
       /\ last.ret.bytesRead = Len(last.arg[2])
       /\ last.ret.value = last.arg[1][1] * 65536 + last.arg[1][2]


-----------------------------------------------------------------------------
(* Properties of the deltas of a pack *)

\* C23: after parsePack, the object of every REF delta whose base is a
\* plain object of the same pack and was not in the store is in the store
C23_RefDeltaInPackResolved ==
    (last.op = "parsePack" /\ last.ok) =>
       \A i \in 1..Len(last.arg.entries) :
          LET e == last.arg.entries[i]
          IN (/\ e.type = "ref_delta"
              /\ e.baseOid \notin last.objects0
              /\ \E j \in 1..Len(last.arg.entries) :
                    last.arg.entries[j] = FullEntry(e.baseOid))
                => e.obj \in objects


-----------------------------------------------------------------------------
(* Properties of upload-pack *)

\* The commits reached from c by all parent links without passing a have
RECURSIVE ReachedAvoiding(_, _)
ReachedAvoiding(c, haves) ==
    IF c \in haves THEN {}
    ELSE {c} \cup UNION {ReachedAvoiding(c[3][i], haves) : i \in DOMAIN c[3]}

\* C24: the pack of upload-pack holds every commit reachable from the wants
\* over all parents without passing through a have, with the closure of
\* its tree, and no have
C24_UploadPackReachable ==
    last.op = "uploadPack" =>
       LET wants == SeqRange(last.arg[1])
           haves == SeqRange(last.arg[2])
       IN /\ \A w \in wants : \A c \in ReachedAvoiding(w, haves) :
                {c} \cup Closure(c[2]) \subseteq last.ret
          /\ \A h \in haves : h \notin last.ret


-----------------------------------------------------------------------------
(* Properties of applyDelta *)

\* The bytes an instruction really produces: the part of a COPY range that
\* is in the base, the literal bytes of an INSERT that are in the delta
ProducedBy(base, instruction) ==
    IF instruction.type = "copy"
    THEN Len(Slice(base, instruction.offset, instruction.offset + instruction.size))
    ELSE Len(instruction.data)

RECURSIVE ProducedTotal(_, _)
ProducedTotal(base, instructions) ==
    IF Len(instructions) = 0 THEN 0
    ELSE ProducedBy(base, Head(instructions)) + ProducedTotal(base, Tail(instructions))

\* C25: applyDelta returns a result only if the source size of the delta
\* is the length of the base, every COPY range lies in the base, every
\* INSERT has all its literal bytes, and the bytes produced total the
\* target size
C25_ApplyDeltaValidates ==
    (last.op = "applyDelta" /\ last.ok) =>
       /\ last.arg.sourceSize = Len(last.arg.base)
       /\ \A i \in 1..Len(last.arg.instructions) :
             ProducedBy(last.arg.base, last.arg.instructions[i])
                = last.arg.instructions[i].size
       /\ ProducedTotal(last.arg.base, last.arg.instructions) = last.arg.targetSize


-----------------------------------------------------------------------------
(* Properties of the push on the wire *)

\* C26: from the body that pushPack builds, the parser of receive-pack
\* recovers exactly the ref updates and the pack bytes that were sent
C26_PushBodyParses ==
    last.op = "receive" =>
       /\ last.ret.updates = last.arg.refs
       /\ last.ret.pack = last.arg.pack

\* The same for a push without ref updates
PushBodyParsesWithoutUpdates ==
    (last.op = "receive" /\ Len(last.arg.refs) = 0) =>
       /\ last.ret.updates = last.arg.refs
       /\ last.ret.pack = last.arg.pack


-----------------------------------------------------------------------------
(* Properties of a repeated init *)

\* C28: GitRepository.init on a repository that was initialized before
\* leaves HEAD, the refs, the index and the objects as they were
C28_InitChangesNothing ==
    last.op = "init" =>
       /\ HEAD = last.HEAD0
       /\ refs = last.refs0
       /\ index = last.index0
       /\ objects = last.objects0


-----------------------------------------------------------------------------
(* Properties of Client.mv *)

\* C29: a Client.mv that fails leaves the index and the working tree as
\* they were before the call
C29_FailedMvChangesNothing ==
    [][(last'.op = "mv" /\ ~last'.ok /\ nops' = nops + 1) =>
          (index' = index /\ files' = files)]_vars


-----------------------------------------------------------------------------
(* Properties of the conflict resolver *)

\* C30: a resolveConflict that throws changes the resolved flag and the
\* resolution of no conflict, and a conflict leaves the unresolved ones
\* only by a resolveConflict for its path that returned normally
C30_FailedResolveChangesNothing ==
    [][/\ (last'.op = "resolveConflict" /\ ~last'.ok /\ nops' = nops + 1)
             => resolver' = resolver
       /\ \A p \in GetUnresolvedConflicts(resolver) :
             (p \in DOMAIN resolver' /\ p \notin GetUnresolvedConflicts(resolver'))
                => (last'.op = "resolveConflict" /\ last'.ok /\ last'.arg.path = p)]_vars

=============================================================================
